---- MODULE Spec2Model ----
(***************************************************************************)
(* Stock-management web API (IndieLisboa "Gestor de Stock"): the sale      *)
(* creation protocol of SaleController.createSale and the operations that  *)
(* share its tables (administrative stock updates, product updates), the   *)
(* router in front of them (role guard, body validation, error responses), *)
(* product creation with its tag combinations, and the rotation of refresh *)
(* tokens by AuthController.refresh.                                       *)
(*                                                                         *)
(* The store is the PostgreSQL database the application is deployed on     *)
(* (package.json depends on pg), reached through Sequelize managed         *)
(* transactions.  Each request handler is a sequence of awaited store      *)
(* calls; one action of this module is one awaited call together with the  *)
(* synchronous code that follows it up to the next await.                  *)
(*                                                                         *)
(* Store semantics that the handlers rely on:                              *)
(*  - a REPEATABLE READ transaction reads from the snapshot taken by its   *)
(*    first query; an upsert/update of a row that another transaction      *)
(*    committed after that snapshot raises a serialization failure; a row  *)
(*    written by a transaction is locked until that transaction ends;      *)
(*  - a READ COMMITTED transaction updates the latest committed version;   *)
(*  - a managed transaction commits when the callback returns (also when   *)
(*    it returns an error object) and rolls back when the callback throws; *)
(*  - Model.bulkCreate does not run the model's validators unless asked    *)
(*    to (option validate, default false); Model.create and save do.       *)
(***************************************************************************)
EXTENDS Integers, Sequences, FiniteSets, TLC

\* ------------------------------------------------------------------ bounds

\* Largest quantity a request may name (cart item or stock list entry).
MaxQty == 3
\* Largest price a product update may set (Price is 0..200000 in the source).
MaxPrice == 3
\* Last tick of the server's clock.
MaxNow == 4

\* Ticks of the clock per second (a tick is half a second).
TicksPerSecond == 2
\* config.refreshExpiresInSeconds: the lifetime of a refresh token.
RefreshExpires == 1

\* ------------------------------------------------------------- the universe

Calls == {"r1", "r2"}
Products == {"P1", "P2"}
Locations == {"L1", "L2"}
UserIds == {"S1"}
SellerIds == UserIds \cup {"ghost"}

\* Longest cart / stock list of a request: one entry per product; a longer list
\* repeats an id, as some lists of this length already do.
MaxList == Cardinality(Products)

\* Sequences over S of length 0..n.
SeqUpTo(S, n) == UNION {[1..k -> S] : k \in 0..n}

EmptyFn == [k \in {} |-> 0]

\* Variant: rows that exist are kept (ignoreDuplicates in place of updateOnDuplicate).
Merge_KeepsExisting(f, g) ==
    [k \in (DOMAIN f) \cup (DOMAIN g) |-> IF k \in DOMAIN f THEN f[k] ELSE g[k]]

Merge(f, g) == [k \in (DOMAIN f) \cup (DOMAIN g) |-> IF k \in DOMAIN g THEN g[k] ELSE f[k]]

RECURSIVE SumSeq(_)
SumSeq(s) == IF s = <<>> THEN 0 ELSE Head(s) + SumSeq(Tail(s))

\* ------------------------------------------------------------------ state

VARIABLES
    stock,        \* committed table stock: (productId, locationId) -> quantity
    price,        \* committed column product.price: productId -> price
    sale,         \* committed table sale (set of rows)
    saleItem,     \* committed table sale_item (set of rows)
    catalog,      \* committed tables product and tag: a row per product, with its tags
    user,         \* committed table user: userId -> its refresh token and the token's expiry
    account,      \* committed table user: userId -> its name and role columns
    pc,           \* per request: the await it is suspended at
    req,          \* per request: the operation and its arguments
    stockResult,  \* per request: createSale's stockResult (productId -> row)
    items,        \* per request: createSale's items
    found,        \* per request: refresh's user (the row it read, as it changed it)
    txSale,       \* per request: sale rows written by its open transaction
    txItems,      \* per request: sale_item rows written by its open transaction
    txStock,      \* per request: stock rows written by its open transaction
    txPrice,      \* per request: product prices written by its open transaction
    txCatalog,    \* per request: product and tag rows written by its open transaction
    txUser,       \* per request: user rows written by its open transaction
    txAccount,    \* per request: name and role columns written by its open transaction
    changed,      \* per request: rows committed by others since its snapshot
    result,       \* per request: what the handler answered
    log,          \* per request: the store calls it issued, in order
    stock0,       \* history: the stock table of the initial state
    now           \* the server's clock (Date.now()), in ticks

vars == <<stock, price, sale, saleItem, catalog, user, account, pc, req, stockResult, items,
          found, txSale, txItems, txStock, txPrice, txCatalog, txUser, txAccount, changed,
          result, log, stock0, now>>

committed == <<stock, price, sale, saleItem, catalog, user, account>>
locals == <<stockResult, items, found>>
writes == <<txSale, txItems, txStock, txPrice, txCatalog, txUser, txAccount>>

Keys == Products \X Locations

NoReq == [kind |-> "none"]

\* The seeded database: Stock(P1,L1) = 5, Stock(P2,L1) = 2, Stock(P1,L2) = 1 and
\* no row for (P2,L2); price(P1) = 2, price(P2) = 3; no sale yet.
SeedStock == (<<"P1", "L1">> :> 5) @@ (<<"P2", "L1">> :> 2) @@ (<<"P1", "L2">> :> 1)
SeedPrice == ("P1" :> 2) @@ ("P2" :> 3)

\* The user S1 logged in at time 0: its refresh token t0 lasts RefreshExpires.
SeedUser ==
    [u \in UserIds |-> [token |-> "t0", tokenExpiresDate |-> TicksPerSecond * RefreshExpires]]

\* P1 is a red T-shirt, P2 a red bag.
SeedCatalog ==
    {[productId |-> "P1", category |-> "tshirt",
      tags |-> ("colour" :> "red") @@ ("size" :> "m") @@ ("design" :> "logo")],
     [productId |-> "P2", category |-> "bag",
      tags |-> ("colour" :> "red") @@ ("design" :> "logo")]}

\* The accounts whose name and role are followed: the administrator A1 and S1.
AccountIds == UserIds \cup {"A1"}

Names == {"Ana", "Rui"}

\* A1 is an administrator and S1 a seller.
SeedAccount ==
    [u \in AccountIds |->
        [name |-> "Ana", role |-> IF u = "A1" THEN "admin" ELSE "seller"]]

\* The null of a date column, apart from every date.
NullDate == 0 - 1

\* A user row without a refresh token (logged out, or never logged in).
NoUser == [token |-> "null", tokenExpiresDate |-> NullDate]

Init ==
    /\ stock = SeedStock
    /\ price = SeedPrice
    /\ sale = {}
    /\ saleItem = {}
    /\ catalog = SeedCatalog
    /\ user = SeedUser
    /\ account = SeedAccount
    /\ pc = [c \in Calls |-> "idle"]
    /\ req = [c \in Calls |-> NoReq]
    /\ stockResult = [c \in Calls |-> EmptyFn]
    /\ items = [c \in Calls |-> <<>>]
    /\ found = [c \in Calls |-> NoUser]
    /\ txSale = [c \in Calls |-> {}]
    /\ txItems = [c \in Calls |-> {}]
    /\ txStock = [c \in Calls |-> EmptyFn]
    /\ txPrice = [c \in Calls |-> EmptyFn]
    /\ txCatalog = [c \in Calls |-> {}]
    /\ txUser = [c \in Calls |-> EmptyFn]
    /\ txAccount = [c \in Calls |-> EmptyFn]
    /\ changed = [c \in Calls |-> {}]
    /\ result = [c \in Calls |-> "pending"]
    /\ log = [c \in Calls |-> <<>>]
    /\ stock0 = SeedStock
    /\ now = 0

\* ------------------------------------------------------------- the store

\* A request is inside a transaction from the await that opens it to the one
\* that ends it.
Active(c) == pc[c] \notin {"idle", "done"}

\* Rows the open transaction of c holds a write lock on.
Locked(c) ==
    (DOMAIN txStock[c]) \cup {<<p, "product">> : p \in DOMAIN txPrice[c]}
        \cup {<<u, "user">> : u \in (DOMAIN txUser[c]) \cup (DOMAIN txAccount[c])}

\* A write of `rows` by c waits while another open transaction holds one of them.
Blocked(c, rows) == \E d \in Calls \ {c} : rows \cap Locked(d) # {}

\* Under REPEATABLE READ a write of a row that was committed by another
\* transaction after the writer's snapshot fails ("could not serialize access
\* due to concurrent update"); under READ COMMITTED it overwrites.
SerializationFailure(c, isolation, rows) ==
    isolation = "REPEATABLE_READ" /\ rows \cap changed[c] # {}

\* The snapshot of a transaction is taken by its first query.
Snapshotted(c) == Active(c) /\ log[c] # <<>>

\* COMMIT of c's transaction: its rows reach the committed tables, and every
\* other transaction that already has a snapshot sees them as changed.
CommitTx(c) ==
    /\ stock' = Merge(stock, txStock[c])
    /\ price' = Merge(price, txPrice[c])
    /\ sale' = sale \cup txSale[c]
    /\ saleItem' = saleItem \cup txItems[c]
    /\ catalog' = catalog \cup txCatalog[c]
    /\ user' = Merge(user, txUser[c])
    /\ account' = [u \in DOMAIN account |->
                     IF u \in DOMAIN txAccount[c] THEN Merge(account[u], txAccount[c][u])
                     ELSE account[u]]
    /\ changed' = [d \in Calls |->
                     IF d # c /\ Snapshotted(d)
                     THEN changed[d] \cup Locked(c)
                     ELSE IF d = c THEN {} ELSE changed[d]]
    /\ txSale' = [txSale EXCEPT ![c] = {}]
    /\ txItems' = [txItems EXCEPT ![c] = {}]
    /\ txStock' = [txStock EXCEPT ![c] = EmptyFn]
    /\ txPrice' = [txPrice EXCEPT ![c] = EmptyFn]
    /\ txCatalog' = [txCatalog EXCEPT ![c] = {}]
    /\ txUser' = [txUser EXCEPT ![c] = EmptyFn]
    /\ txAccount' = [txAccount EXCEPT ![c] = EmptyFn]

\* Variant: the transaction is ended by COMMIT also when the callback throws.
RollbackTx_Commits(c) == CommitTx(c)

\* ROLLBACK of c's transaction: its rows are discarded.
RollbackTx(c) ==
    /\ UNCHANGED committed
    /\ changed' = [changed EXCEPT ![c] = {}]
    /\ txSale' = [txSale EXCEPT ![c] = {}]
    /\ txItems' = [txItems EXCEPT ![c] = {}]
    /\ txStock' = [txStock EXCEPT ![c] = EmptyFn]
    /\ txPrice' = [txPrice EXCEPT ![c] = EmptyFn]
    /\ txCatalog' = [txCatalog EXCEPT ![c] = {}]
    /\ txUser' = [txUser EXCEPT ![c] = EmptyFn]
    /\ txAccount' = [txAccount EXCEPT ![c] = EmptyFn]

\* The handler answers `r` and the request is over (its locals are gone).
Answer(c, r) ==
    /\ pc' = [pc EXCEPT ![c] = "done"]
    /\ result' = [result EXCEPT ![c] = r]
    /\ stockResult' = [stockResult EXCEPT ![c] = EmptyFn]
    /\ items' = [items EXCEPT ![c] = <<>>]
    /\ found' = [found EXCEPT ![c] = NoUser]

\* The handler goes on to the await `next`.
Goto(c, next) ==
    /\ pc' = [pc EXCEPT ![c] = next]
    /\ UNCHANGED result

Issue(c, call) == log' = [log EXCEPT ![c] = Append(@, call)]

\* The store fails the awaited call (connection lost, lock timeout, deadlock
\* victim ...): the callback throws, the managed transaction rolls back and the
\* handler's promise is rejected with that exception.
Throw(c, call) ==
    /\ RollbackTx(c)
    /\ Answer(c, "Error")
    /\ log' = [log EXCEPT ![c] = @ \o <<call, "rollback">>]

StoreFail(c) ==
    /\ Active(c)
    /\ Throw(c, "failed")
    /\ UNCHANGED <<req, stock0, now>>

\* The callback has returned a value: the managed transaction commits.
Commit(c) ==
    /\ pc[c] = "commit"
    /\ CommitTx(c)
    /\ Answer(c, "ok")
    /\ Issue(c, "commit")
    /\ UNCHANGED <<req, stock0, now>>

\* The callback has returned an error object before any write: the managed
\* transaction commits nothing and the handler rejects with that error.
Reject(c, call, error) ==
    /\ Answer(c, error)
    /\ Issue(c, call)
    /\ UNCHANGED <<committed, writes, changed>>

\* ------------------------------------------------------------- createSale

\* Array.prototype.lastIndexOf, 1-based; 0 when absent.
LastIndexOf(s, x) ==
    IF \E i \in 1..Len(s) : s[i] = x
    THEN CHOOSE i \in 1..Len(s) : s[i] = x /\ \A j \in (i+1)..Len(s) : s[j] # x
    ELSE 0

\* Variant: the sanity check is missing.
SomeRepeated_Off(ids) == FALSE

\* ids.some((id, idx) => ids.lastIndexOf(id) != idx)
SomeRepeated(ids) == \E idx \in 1..Len(ids) : LastIndexOf(ids, ids[idx]) # idx

ProductIdsOf(list) == [i \in 1..Len(list) |-> list[i].productId]

\* Variant: the transaction is opened with the READ COMMITTED level.
SALE_ISOLATION_ReadCommitted == "READ_COMMITTED"

\* The isolation level of createSale's transaction.
SALE_ISOLATION == "REPEATABLE_READ"

\* CreateSaleListItem: quantity is an integer >= 1 (checked by the router).
CartItems == [productId : Products, quantity : 1..MaxQty]
Carts == SeqUpTo(CartItems, MaxList)

\* createSale's synchronous beginning on the validated request `request`: the
\* sanity check, then the opening of the transaction.
CreateSale_Enter(c, request) ==
    /\ req' = [req EXCEPT ![c] = request]
    /\ IF SomeRepeated(ProductIdsOf(request.list))
       THEN Answer(c, "BadRequestError")
       ELSE Goto(c, "sale.findStock") /\ UNCHANGED locals

\* createSale, up to the opening of the transaction, on a request that passed
\* the router (authorised token, well-formed body).
CreateSale_Begin(c) ==
    /\ pc[c] = "idle"
    /\ \E list \in Carts, locationId \in Locations, sellerId \in SellerIds :
         CreateSale_Enter(c, [kind |-> "createSale", list |-> list,
                              locationId |-> locationId, sellerId |-> sellerId])
    /\ UNCHANGED <<committed, writes, changed, log, stock0, now>>

\* Stock.findAll({where: {productId: productIds, locationId}, include: product.price})
FindStock(productIds, locationId) ==
    [p \in {q \in Products : <<q, locationId>> \in DOMAIN stock
                             /\ \E i \in 1..Len(productIds) : productIds[i] = q} |->
        [productId |-> p, locationId |-> locationId,
         quantity |-> stock[<<p, locationId>>], price |-> price[p]]]

\* Variant: the quantity comparison is missing (stock != null only).
Valid_ExistsOnly(list, rows) ==
    \A i \in 1..Len(list) : list[i].productId \in DOMAIN rows

\* Variant: list.some(...) in place of list.every(...).
Valid_Some(list, rows) ==
    \E i \in 1..Len(list) :
        /\ list[i].productId \in DOMAIN rows
        /\ rows[list[i].productId].quantity >= list[i].quantity

\* list.every(item => stock != null && stock.quantity >= item.quantity)
Valid(list, rows) ==
    \A i \in 1..Len(list) :
        /\ list[i].productId \in DOMAIN rows
        /\ rows[list[i].productId].quantity >= list[i].quantity

CreateSale_FindStock(c) ==
    /\ pc[c] = "sale.findStock"
    /\ LET rows == FindStock(ProductIdsOf(req[c].list), req[c].locationId) IN
         IF Valid(req[c].list, rows)
         THEN /\ stockResult' = [stockResult EXCEPT ![c] = rows]
              /\ Goto(c, "sale.findSeller")
              /\ Issue(c, "Stock.findAll")
              /\ UNCHANGED <<committed, items, found, writes, changed>>
         ELSE Reject(c, "Stock.findAll", "ConflitError")
    /\ UNCHANGED <<req, stock0, now>>

\* Variant: the unit price is the product's price at the time the items are
\* made, not the one fetched with the stock.
MakeItems_CurrentPrice(list, rows) ==
    [i \in 1..Len(list) |->
        [saleId |-> "", productId |-> list[i].productId, quantity |-> list[i].quantity,
         price |-> price[list[i].productId],
         total |-> list[i].quantity * rows[list[i].productId].price]]

\* list.map(item => {... stock.quantity -= item.quantity; return {...}})
MakeItems(list, rows) ==
    [i \in 1..Len(list) |->
        [saleId |-> "", productId |-> list[i].productId, quantity |-> list[i].quantity,
         price |-> rows[list[i].productId].price,
         total |-> list[i].quantity * rows[list[i].productId].price]]

\* Variant: only the first cart item's stock is decremented.
Decrement_HeadOnly(rows, list) ==
    IF list = <<>> THEN rows
    ELSE [rows EXCEPT ![Head(list).productId].quantity = @ - Head(list).quantity]

RECURSIVE Decrement(_, _)
Decrement(rows, list) ==
    IF list = <<>> THEN rows
    ELSE Decrement([rows EXCEPT ![Head(list).productId].quantity = @ - Head(list).quantity],
                   Tail(list))

\* Variant: the result of the seller lookup is not checked.
CreateSale_FindSeller_NoCheck(c) ==
    /\ pc[c] = "sale.findSeller"
    /\ items' = [items EXCEPT ![c] = MakeItems(req[c].list, stockResult[c])]
    /\ stockResult' = [stockResult EXCEPT ![c] = Decrement(@, req[c].list)]
    /\ Goto(c, "sale.create")
    /\ Issue(c, "User.findByPk")
    /\ UNCHANGED <<committed, found, writes, changed, req, stock0, now>>

\* User.findByPk(sellerId), then the synchronous code up to Sale.create.
CreateSale_FindSeller(c) ==
    /\ pc[c] = "sale.findSeller"
    /\ IF req[c].sellerId \notin UserIds
       THEN Reject(c, "User.findByPk", "AppError")
       ELSE /\ items' = [items EXCEPT ![c] = MakeItems(req[c].list, stockResult[c])]
            /\ stockResult' = [stockResult EXCEPT ![c] = Decrement(@, req[c].list)]
            /\ Goto(c, "sale.create")
            /\ Issue(c, "User.findByPk")
            /\ UNCHANGED <<committed, found, writes, changed>>
    /\ UNCHANGED <<req, stock0, now>>

\* Variant: the reduce adds item.price in place of item.total.
TotalPrice_SumsPrices(its) == SumSeq([i \in 1..Len(its) |-> its[i].price])

\* items.reduce((acc, item) => acc + item.total, 0)
TotalPrice(its) == SumSeq([i \in 1..Len(its) |-> its[i].total])

\* The generated sale id (UUIDv4): one per request.
NewSaleId(c) == c

\* Variant: Sale.create without {transaction}: the row is committed at once.
CreateSale_SaleCreate_NoTransaction(c) ==
    /\ pc[c] = "sale.create"
    /\ sale' = sale \cup {[saleId |-> NewSaleId(c), status |-> "completed",
                            sellerId |-> req[c].sellerId, locationId |-> req[c].locationId,
                            totalPrice |-> TotalPrice(items[c])]}
    /\ items' = [items EXCEPT ![c] = [i \in 1..Len(@) |-> [@[i] EXCEPT !.saleId = NewSaleId(c)]]]
    /\ Goto(c, "sale.bulkItems")
    /\ Issue(c, "Sale.create")
    /\ UNCHANGED <<stock, price, catalog, user, account, saleItem, req, stockResult, found, writes,
                 changed, stock0, now>>

\* Variant: the sale is created with the status pending.
CreateSale_SaleCreate_Pending(c) ==
    /\ pc[c] = "sale.create"
    /\ txSale' = [txSale EXCEPT ![c] =
                    {[saleId |-> NewSaleId(c), status |-> "pending",
                      sellerId |-> req[c].sellerId, locationId |-> req[c].locationId,
                      totalPrice |-> TotalPrice(items[c])]}]
    /\ items' = [items EXCEPT ![c] = [i \in 1..Len(@) |-> [@[i] EXCEPT !.saleId = NewSaleId(c)]]]
    /\ Goto(c, "sale.bulkItems")
    /\ Issue(c, "Sale.create")
    /\ UNCHANGED <<committed, req, stockResult, found, txItems, txStock, txPrice, txCatalog,
                 txUser, txAccount, changed, stock0, now>>

\* Sale.create({status, sellerId, locationId, totalPrice}), then items.forEach(...)
CreateSale_SaleCreate(c) ==
    /\ pc[c] = "sale.create"
    /\ txSale' = [txSale EXCEPT ![c] =
                    {[saleId |-> NewSaleId(c), status |-> "completed",
                      sellerId |-> req[c].sellerId, locationId |-> req[c].locationId,
                      totalPrice |-> TotalPrice(items[c])]}]
    /\ items' = [items EXCEPT ![c] = [i \in 1..Len(@) |-> [@[i] EXCEPT !.saleId = NewSaleId(c)]]]
    /\ Goto(c, "sale.bulkItems")
    /\ Issue(c, "Sale.create")
    /\ UNCHANGED <<committed, req, stockResult, found, txItems, txStock, txPrice, txCatalog,
                 txUser, txAccount, changed, stock0, now>>

\* Two of the rows to insert have the same primary key (saleId, productId).
SameKey(its) ==
    \E i, j \in 1..Len(its) :
        i < j /\ its[i].saleId = its[j].saleId /\ its[i].productId = its[j].productId

\* Variant: only the first item is inserted.
CreateSale_ItemsBulkCreate_HeadOnly(c) ==
    /\ pc[c] = "sale.bulkItems"
    /\ txItems' = [txItems EXCEPT ![c] = {items[c][i] : i \in 1..Len(items[c]) \cap {1}}]
    /\ Goto(c, "sale.bulkStock")
    /\ Issue(c, "SaleItem.bulkCreate")
    /\ UNCHANGED <<committed, req, locals, txSale, txStock, txPrice, txCatalog, txUser, txAccount,
                 changed, stock0, now>>

\* SaleItem.bulkCreate(items, {transaction}): one INSERT of all the rows, which
\* the primary key (saleId, productId) of sale_item refuses as a whole when two
\* rows have the same key.
CreateSale_ItemsBulkCreate(c) ==
    /\ pc[c] = "sale.bulkItems"
    /\ IF SameKey(items[c])
       THEN Throw(c, "SaleItem.bulkCreate")
       ELSE /\ txItems' = [txItems EXCEPT ![c] = {items[c][i] : i \in 1..Len(items[c])}]
            /\ Goto(c, "sale.bulkStock")
            /\ Issue(c, "SaleItem.bulkCreate")
            /\ UNCHANGED <<committed, locals, txSale, txStock, txPrice, txCatalog, txUser,
                         txAccount, changed>>
    /\ UNCHANGED <<req, stock0, now>>

\* Variant: the rows of the cart's products are upserted at every location.
StockRows_AllLocations(rows) ==
    [k \in {<<p, l>> : p \in DOMAIN rows, l \in Locations} |-> rows[k[1]].quantity]

\* The rows Stock.bulkCreate(stockResult, {updateOnDuplicate: ["quantity"]}) upserts.
StockRows(rows) ==
    [k \in {<<p, rows[p].locationId>> : p \in DOMAIN rows} |-> rows[k[1]].quantity]

\* Variant: the rows are upserted one by one outside the transaction, so those
\* before a foreign key violation stay.
Stock_Upsert_RowByRow(c, isolation, rows, fkError) ==
    /\ ~Blocked(c, DOMAIN rows)
    /\ IF \E k \in DOMAIN rows : k[1] \notin Products \/ k[2] \notin Locations
       THEN /\ stock' = Merge(stock, [k \in (DOMAIN rows) \cap Keys |-> rows[k]])
            /\ UNCHANGED <<price, sale, saleItem, catalog, user, account, writes>>
            /\ changed' = [changed EXCEPT ![c] = {}]
            /\ Answer(c, fkError)
            /\ log' = [log EXCEPT ![c] = @ \o <<"Stock.bulkCreate", "rollback">>]
       ELSE IF SerializationFailure(c, isolation, DOMAIN rows)
       THEN Throw(c, "Stock.bulkCreate")
       ELSE /\ txStock' = [txStock EXCEPT ![c] = rows]
            /\ Goto(c, "commit")
            /\ Issue(c, "Stock.bulkCreate")
            /\ UNCHANGED <<committed, locals, txSale, txItems, txPrice, txCatalog, txUser,
                         txAccount, changed>>
    /\ UNCHANGED <<req, stock0, now>>

\* An upsert of stock rows in the open transaction of c: it waits for the row
\* locks, then fails on a foreign key or on a concurrent update, or writes.
Stock_Upsert(c, isolation, rows, fkError) ==
    /\ ~Blocked(c, DOMAIN rows)
    /\ IF \E k \in DOMAIN rows : k[1] \notin Products \/ k[2] \notin Locations
       THEN /\ RollbackTx(c)
            /\ Answer(c, fkError)
            /\ log' = [log EXCEPT ![c] = @ \o <<"Stock.bulkCreate", "rollback">>]
       ELSE IF SerializationFailure(c, isolation, DOMAIN rows)
       THEN Throw(c, "Stock.bulkCreate")
       ELSE /\ txStock' = [txStock EXCEPT ![c] = rows]
            /\ Goto(c, "commit")
            /\ Issue(c, "Stock.bulkCreate")
            /\ UNCHANGED <<committed, locals, txSale, txItems, txPrice, txCatalog, txUser,
                         txAccount, changed>>
    /\ UNCHANGED <<req, stock0, now>>

\* Stock.bulkCreate(stockResult, {transaction, updateOnDuplicate: ["quantity"]})
CreateSale_StockBulkCreate(c) ==
    /\ pc[c] = "sale.bulkStock"
    /\ Stock_Upsert(c, SALE_ISOLATION, StockRows(stockResult[c]), "Error")

CreateSale(c) ==
    \/ CreateSale_Begin(c)
    \/ CreateSale_FindStock(c)
    \/ CreateSale_FindSeller(c)
    \/ CreateSale_SaleCreate(c)
    \/ CreateSale_ItemsBulkCreate(c)
    \/ CreateSale_StockBulkCreate(c)

\* ------------------------------------------------- administrative updates

\* Ids a request may name: the existing ones and one that does not exist.
ProductIds == Products \cup {"PX"}
LocationIds == Locations \cup {"LX"}

\* LocationStock / ProductStock: quantity is any number (no annotation).
StockQuantities == {0 - 1, MaxQty}

\* The isolation level of the stock updates' and updateProduct's transactions.
ADMIN_ISOLATION == "REPEATABLE_READ"

\* list.map(stock => ({locationId, productId: stock.productId, quantity: stock.quantity}))
ToUpsertAtLocation(locationId, list) ==
    [k \in {<<list[i].productId, locationId>> : i \in 1..Len(list)} |->
        list[CHOOSE i \in 1..Len(list) : list[i].productId = k[1]].quantity]

\* list.map(stock => ({productId, locationId: stock.locationId, quantity: stock.quantity}))
ToUpsertOfProduct(productId, list) ==
    [k \in {<<productId, list[i].locationId>> : i \in 1..Len(list)} |->
        list[CHOOSE i \in 1..Len(list) : list[i].locationId = k[2]].quantity]

LocationIdsOf(list) == [i \in 1..Len(list) |-> list[i].locationId]

\* updateLocationStock, up to the opening of the transaction.
UpdateLocationStock_Begin(c) ==
    /\ pc[c] = "idle"
    /\ \E locationId \in LocationIds,
          list \in SeqUpTo([productId : ProductIds, quantity : StockQuantities], MaxList) :
         /\ req' = [req EXCEPT ![c] = [kind |-> "updateLocationStock", list |-> list,
                                       locationId |-> locationId]]
         /\ IF SomeRepeated(ProductIdsOf(list))
            THEN Answer(c, "BadRequestError")
            ELSE Goto(c, "location.find") /\ UNCHANGED locals
    /\ UNCHANGED <<committed, writes, changed, log, stock0, now>>

\* Location.findByPk(locationId)
UpdateLocationStock_FindLocation(c) ==
    /\ pc[c] = "location.find"
    /\ IF req[c].locationId \notin Locations
       THEN Reject(c, "Location.findByPk", "NotFoundError")
       ELSE /\ Goto(c, "location.bulkStock")
            /\ Issue(c, "Location.findByPk")
            /\ UNCHANGED <<committed, locals, writes, changed>>
    /\ UNCHANGED <<req, stock0, now>>

\* Stock.bulkCreate(toUpsert, {updateOnDuplicate: ["quantity"], transaction: t});
\* a ForeignKeyConstraintError is answered as a ConflitError.
UpdateLocationStock_BulkCreate(c) ==
    /\ pc[c] = "location.bulkStock"
    /\ Stock_Upsert(c, ADMIN_ISOLATION,
                    ToUpsertAtLocation(req[c].locationId, req[c].list), "ConflitError")

UpdateLocationStock(c) ==
    \/ UpdateLocationStock_Begin(c)
    \/ UpdateLocationStock_FindLocation(c)
    \/ UpdateLocationStock_BulkCreate(c)

\* updateProductstock, up to the opening of the transaction.
UpdateProductstock_Begin(c) ==
    /\ pc[c] = "idle"
    /\ \E productId \in ProductIds,
          list \in SeqUpTo([locationId : LocationIds, quantity : StockQuantities], MaxList) :
         /\ req' = [req EXCEPT ![c] = [kind |-> "updateProductstock", list |-> list,
                                       productId |-> productId]]
         /\ IF SomeRepeated(LocationIdsOf(list))
            THEN Answer(c, "BadRequestError")
            ELSE Goto(c, "product.find") /\ UNCHANGED locals
    /\ UNCHANGED <<committed, writes, changed, log, stock0, now>>

\* Product.findByPk(productId)
UpdateProductstock_FindProduct(c) ==
    /\ pc[c] = "product.find"
    /\ IF req[c].productId \notin Products
       THEN Reject(c, "Product.findByPk", "NotFoundError")
       ELSE /\ Goto(c, "product.bulkStock")
            /\ Issue(c, "Product.findByPk")
            /\ UNCHANGED <<committed, locals, writes, changed>>
    /\ UNCHANGED <<req, stock0, now>>

\* Stock.bulkCreate(toUpsert, {updateOnDuplicate: ["quantity"], transaction: t});
\* a ForeignKeyConstraintError is answered as a ConflitError.
UpdateProductstock_BulkCreate(c) ==
    /\ pc[c] = "product.bulkStock"
    /\ Stock_Upsert(c, ADMIN_ISOLATION,
                    ToUpsertOfProduct(req[c].productId, req[c].list), "ConflitError")

UpdateProductstock(c) ==
    \/ UpdateProductstock_Begin(c)
    \/ UpdateProductstock_FindProduct(c)
    \/ UpdateProductstock_BulkCreate(c)

\* ------------------------------------------------------------ updateProduct

\* updateProduct, up to the opening of the transaction (Price: integer 0..200000).
UpdateProduct_Begin(c) ==
    /\ pc[c] = "idle"
    /\ \E productId \in ProductIds, newPrice \in 0..MaxPrice :
         req' = [req EXCEPT ![c] = [kind |-> "updateProduct", productId |-> productId,
                                    price |-> newPrice]]
    /\ Goto(c, "product.get")
    /\ UNCHANGED <<committed, locals, writes, changed, log, stock0, now>>

\* getProductByPk(productId, t), then product.set({name, price, description})
UpdateProduct_GetProduct(c) ==
    /\ pc[c] = "product.get"
    /\ IF req[c].productId \notin Products
       THEN Reject(c, "Product.findByPk", "NotFoundError")
       ELSE /\ Goto(c, "product.save")
            /\ Issue(c, "Product.findByPk")
            /\ UNCHANGED <<committed, locals, writes, changed>>
    /\ UNCHANGED <<req, stock0, now>>

\* Variant: the update also rewrites the price and total of the product's sale items.
UpdateProduct_Save_RepricesItems(c) ==
    /\ pc[c] = "product.save"
    /\ ~Blocked(c, {<<req[c].productId, "product">>})
    /\ saleItem' = {IF it.productId = req[c].productId
                     THEN [it EXCEPT !.price = req[c].price, !.total = it.quantity * req[c].price]
                     ELSE it : it \in saleItem}
    /\ txPrice' = [txPrice EXCEPT ![c] = (req[c].productId :> req[c].price)]
    /\ Goto(c, "commit")
    /\ Issue(c, "Product.save")
    /\ UNCHANGED <<stock, price, catalog, user, account, sale, req, locals, txSale, txItems,
                 txStock, txCatalog, txUser, txAccount, changed, stock0, now>>

\* Variant: product.set(body) with a body that also names a category.
UpdateProduct_Save_SetsCategory(c) ==
    /\ pc[c] = "product.save"
    /\ ~Blocked(c, {<<req[c].productId, "product">>})
    /\ txPrice' = [txPrice EXCEPT ![c] = (req[c].productId :> req[c].price)]
    /\ txCatalog' = [txCatalog EXCEPT ![c] =
                       {[r EXCEPT !.category = "book"] :
                           r \in {q \in catalog : q.productId = req[c].productId}}]
    /\ Goto(c, "commit")
    /\ Issue(c, "Product.save")
    /\ UNCHANGED <<committed, req, locals, txSale, txItems, txStock, txUser, txAccount,
                 changed, stock0, now>>

\* product.save({transaction: t}): UPDATE product SET price = ... WHERE productId = ...
UpdateProduct_Save(c) ==
    /\ pc[c] = "product.save"
    /\ LET row == <<req[c].productId, "product">> IN
         /\ ~Blocked(c, {row})
         /\ IF SerializationFailure(c, ADMIN_ISOLATION, {row})
            THEN Throw(c, "Product.save")
            ELSE /\ txPrice' = [txPrice EXCEPT ![c] = (req[c].productId :> req[c].price)]
                 /\ Goto(c, "commit")
                 /\ Issue(c, "Product.save")
                 /\ UNCHANGED <<committed, locals, txSale, txItems, txStock, txCatalog, txUser,
                              txAccount, changed>>
    /\ UNCHANGED <<req, stock0, now>>

UpdateProduct(c) ==
    \/ UpdateProduct_Begin(c)
    \/ UpdateProduct_GetProduct(c)
    \/ UpdateProduct_Save(c)

\* ------------------------------------------------------------ createProduct

\* The tags of a request: what is left of the body after name, description,
\* price and category; a T-shirt has colour, size and design, a bag colour and design.
TshirtTags == [colour : {"red", "blue"}, size : {"m", "l"}, design : {"logo"}]
BagTags == [colour : {"red", "blue"}, design : {"logo"}]

\* CreateProductParams; the category is optional in the body of POST /products.
CreateProductParams ==
    {[category |-> "tshirt", tags |-> t] : t \in TshirtTags}
        \cup {[category |-> "bag", tags |-> t] : t \in BagTags}
        \cup {[category |-> "none", tags |-> t] : t \in BagTags}

\* The generated product id (UUIDv4): one per request.
NewProductId(c) == c

\* ProductsController.createProduct up to the opening of the transaction
\* (transactionReadCommitted: every statement sees what is committed when it runs).
CreateProduct_Begin(c) ==
    /\ pc[c] = "idle"
    /\ \E params \in CreateProductParams :
         /\ req' = [req EXCEPT ![c] = [kind |-> "createProduct",
                                       category |-> params.category, tags |-> params.tags]]
         /\ IF params.category = "none"
            THEN Answer(c, "BadRequestError")
            ELSE Goto(c, "product.count") /\ UNCHANGED locals
    /\ UNCHANGED <<committed, writes, changed, log, stock0, now>>

\* Tag.count({where: {[Op.or]: tags}, include: product of `category`,
\* group: "Tag.productId"}): per product of the category with a matching tag,
\* the number of its tags that match; the statement sees the rows in `rows`.
TagCount(rows, category, tags) ==
    LET matching(r) == {n \in DOMAIN tags : n \in DOMAIN r.tags /\ r.tags[n] = tags[n]} IN
    [id \in {r.productId : r \in {q \in rows : q.category = category /\ matching(q) # {}}} |->
        Cardinality(matching(CHOOSE r \in rows : r.productId = id))]

\* count.some(result => result.count == tagNames.length)
TagsAlreadyExist(count, tags) ==
    \E id \in DOMAIN count : count[id] = Cardinality(DOMAIN tags)

\* The first await of createProduct(params): the count and the check on it.
CreateProduct_TagCount(c) ==
    /\ pc[c] = "product.count"
    /\ IF TagsAlreadyExist(TagCount(catalog \cup txCatalog[c], req[c].category, req[c].tags),
                           req[c].tags)
       THEN Reject(c, "Tag.count", "ConflitError")
       ELSE /\ Goto(c, "product.create")
            /\ Issue(c, "Tag.count")
            /\ UNCHANGED <<committed, locals, writes, changed>>
    /\ UNCHANGED <<req, stock0, now>>

\* Product.create({name, description, price, category}, {transaction: t})
CreateProduct_ProductCreate(c) ==
    /\ pc[c] = "product.create"
    /\ txCatalog' = [txCatalog EXCEPT ![c] =
                       {[productId |-> NewProductId(c), category |-> req[c].category,
                         tags |-> EmptyFn]}]
    /\ Goto(c, "product.tags")
    /\ Issue(c, "Product.create")
    /\ UNCHANGED <<committed, req, locals, txSale, txItems, txStock, txPrice, txUser, txAccount,
                 changed, stock0, now>>

\* Tag.bulkCreate(pTags, {transaction: t})
CreateProduct_TagBulkCreate(c) ==
    /\ pc[c] = "product.tags"
    /\ txCatalog' = [txCatalog EXCEPT ![c] = {[r EXCEPT !.tags = req[c].tags] : r \in @}]
    /\ Goto(c, "commit")
    /\ Issue(c, "Tag.bulkCreate")
    /\ UNCHANGED <<committed, req, locals, txSale, txItems, txStock, txPrice, txUser, txAccount,
                 changed, stock0, now>>

CreateProduct(c) ==
    \/ CreateProduct_Begin(c)
    \/ CreateProduct_TagCount(c)
    \/ CreateProduct_ProductCreate(c)
    \/ CreateProduct_TagBulkCreate(c)

\* ------------------------------------------------------------------ roles

Roles == {"basic", "seller", "manager", "admin"}

\* The bitwise AND of two non-negative integers (JavaScript's & operator).
RECURSIVE BitAnd(_, _)
BitAnd(a, b) ==
    IF a = 0 \/ b = 0 THEN 0
    ELSE (a % 2) * (b % 2) + 2 * BitAnd(a \div 2, b \div 2)

\* Variant: manager is given a bit of its own (0x02) instead of 0x0F.
roleValue_ManagerOwnBit ==
    ("basic" :> 0) @@ ("seller" :> 1) @@ ("manager" :> 2) @@ ("admin" :> 255)

\* roleValue: 0x00, 0x01, 0x0F, 0xFF
roleValue == ("basic" :> 0) @@ ("seller" :> 1) @@ ("manager" :> 15) @@ ("admin" :> 255)

\* (actual & target) === target
hasRolePrivileges(actualRole, targetRole) ==
    BitAnd(roleValue[actualRole], roleValue[targetRole]) = roleValue[targetRole]

\* ------------------------------------------------------------------ errors

\* The code carried by the error object an operation rejects with: the `code`
\* given to its constructor, AppErrorCode.UNSPECIFIED when none is given.
CodeOf(kind, error) ==
    CASE error = "AuthenticationError" /\ kind = "refresh" -> "token.missing"
      [] error = "ForbiddenError" /\ kind = "refresh" -> "token.invalid"
      [] error = "ForbiddenError" -> "request.privilege"
      [] error \in {"BadRequestError", "ValidateError"} -> "request.format"
      [] error = "NotFoundError" -> "resource.not_found"
      [] error = "AppError" /\ kind = "createSale" -> "resource.not_found"
      [] error = "ConflitError" /\ kind = "createProduct" -> "resource.duplicated"
      [] OTHER -> "unspecified"

\* requestErrorHandler: a ValidateError becomes a BadRequestError; then the
\* switch on error.constructor picks the response, and every constructor that
\* is none of the five subclasses gets the 500 response, which carries no code.
requestErrorHandler(kind, error) ==
    LET constructor == IF error = "ValidateError" THEN "BadRequestError" ELSE error
        code == CodeOf(kind, error) IN
    CASE constructor = "BadRequestError" -> [status |-> 400, code |-> code]
      [] constructor = "AuthenticationError" -> [status |-> 401, code |-> code]
      [] constructor = "ForbiddenError" -> [status |-> 403, code |-> code]
      [] constructor = "NotFoundError" -> [status |-> 404, code |-> code]
      [] constructor = "ConflitError" -> [status |-> 409, code |-> code]
      [] OTHER -> [status |-> 500, code |-> "none"]

\* What the caller of a finished request receives.
Response(c) ==
    IF result[c] = "ok"
    THEN [status |-> IF req[c].kind \in {"createSale", "createProduct"} THEN 201
                     ELSE IF req[c].kind \in {"refresh", "logout"} THEN 204
                     ELSE 200,
          code |-> "none"]
    ELSE requestErrorHandler(req[c].kind, result[c])

\* ------------------------------------------------------------------ the router

\* An access token that verifies: the user it was issued to and that user's role.
Tokens == [userId : SellerIds, role : Roles]

\* Variant: the role of the token is not compared with the scope.
jwtValidator_NoScopeCheck(token, scopes) == "ok"

\* jwtValidator(request, scopes) on a token that verifies.
jwtValidator(token, scopes) ==
    IF scopes = <<>> THEN "ok"
    ELSE IF ~hasRolePrivileges(token.role, scopes[1]) THEN "ForbiddenError"
    ELSE "ok"

\* expressAuthentication(request, "jwt", scopes) for any endpoint carrying
\* @Security(SecurityScheme.JWT, [scope]): the guard's verdict ends the step.
ExpressAuthentication(c) ==
    /\ pc[c] = "idle"
    /\ \E token \in Tokens, scope \in Roles :
         /\ req' = [req EXCEPT ![c] = [kind |-> "guard", role |-> token.role, scope |-> scope]]
         /\ Answer(c, jwtValidator(token, <<scope>>))
    /\ UNCHANGED <<committed, writes, changed, log, stock0, now>>

\* Quantities a request body may carry before validation.
RawQuantities == (0 - 1)..MaxQty
RawCarts == SeqUpTo([productId : ProductIds, quantity : RawQuantities], MaxList)

\* Variant: the quantity carries no @minimum annotation.
ValidCreateSaleParams_Off(list) == TRUE

\* CreateSaleListItem.quantity: @isInt @minimum 1
ValidCreateSaleParams(list) == \A i \in 1..Len(list) : list[i].quantity >= 1

\* POST /sales: @Security(JWT, [Role.SELLER]), validation of the body, then
\* createSale with sellerId = request.auth.userId.
Post_Sales(c) ==
    /\ pc[c] = "idle"
    /\ \E token \in Tokens, list \in RawCarts, locationId \in Locations :
         LET request == [kind |-> "createSale", list |-> list, locationId |-> locationId,
                         sellerId |-> token.userId, role |-> token.role] IN
         IF jwtValidator(token, <<"seller">>) # "ok"
         THEN req' = [req EXCEPT ![c] = request] /\ Answer(c, jwtValidator(token, <<"seller">>))
         ELSE IF ~ValidCreateSaleParams(list)
         THEN req' = [req EXCEPT ![c] = request] /\ Answer(c, "ValidateError")
         ELSE CreateSale_Enter(c, request)
    /\ UNCHANGED <<committed, writes, changed, log, stock0, now>>

\* The store refuses createSale's stock upsert with a foreign key violation (the
\* product or the location of a row is gone): the callback throws.
CreateSale_StockBulkCreate_ForeignKey(c) ==
    /\ pc[c] = "sale.bulkStock"
    /\ Throw(c, "ForeignKeyConstraintError")
    /\ UNCHANGED <<req, stock0, now>>

\* ------------------------------------------------------------------ refresh

\* An access token: the user it names, whether its signature is the server's,
\* and its expiry (in seconds; MaxNow seconds is later than any clock here).
AccessTokens == [userId : SellerIds, signed : BOOLEAN, exp : {0, MaxNow}]

\* randomToken(): a new token, one per request.
NewRefreshToken(c) == IF c = "r1" THEN "t1" ELSE "t2"

\* The refresh tokens a request may present: those ever stored, and a made-up one.
RefreshTokens == {"t0", "bogus"} \cup {NewRefreshToken(c) : c \in Calls}

\* request.cookies: each of the two cookies is present or absent.
CookieJars ==
    {[access |-> a, refresh |-> r] : a \in AccessTokens, r \in RefreshTokens}
        \cup {[access |-> a] : a \in AccessTokens}
        \cup {[refresh |-> r] : r \in RefreshTokens}
        \cup {EmptyFn}

\* verifyToken(token, accessSecret, {ignoreExpiration}): jwt.verify checks the
\* signature, then the expiry against the clock in seconds unless told not to.
verifyToken(token, ignoreExpiration, clock) ==
    IF ~token.signed THEN "JsonWebTokenError"
    ELSE IF ~ignoreExpiration /\ (clock \div TicksPerSecond) >= token.exp
    THEN "TokenExpiredError"
    ELSE "ok"

\* Variant: a date never expires.
hasDateExpired_NullOnly(date, clock) == date = NullDate

\* (date == null) || (date.valueOf() < Date.now())
hasDateExpired(date, clock) == date = NullDate \/ date < clock

\* new Date(new Date(Date.now() + seconds * 1000).toUTCString()): the date after
\* `seconds`, cut to the whole second.
getNowAfterSeconds(seconds, clock) ==
    ((clock + seconds * TicksPerSecond) \div TicksPerSecond) * TicksPerSecond

\* refresh up to the opening of the transaction: the two cookies, then the
\* verification of the access token.
Refresh_Begin(c) ==
    /\ pc[c] = "idle"
    /\ \E cookies \in CookieJars :
         /\ req' = [req EXCEPT ![c] = [kind |-> "refresh", cookies |-> cookies]]
         /\ IF "access" \notin DOMAIN cookies \/ "refresh" \notin DOMAIN cookies
            THEN Answer(c, "AuthenticationError")
            ELSE IF verifyToken(cookies.access, TRUE, now) # "ok"
            THEN Answer(c, "ForbiddenError")
            ELSE Goto(c, "refresh.findUser") /\ UNCHANGED locals
    /\ UNCHANGED <<committed, writes, changed, log, stock0, now>>

\* Variant: the user is looked up by the userId alone.
FindOneUser_ByIdOnly(userId, token) == {u \in DOMAIN user : u = userId}

\* User.findOne({where: {userId: userId, token: refreshToken}}): the ids of the
\* rows found (none or one).
FindOneUser(userId, token) == {u \in DOMAIN user : u = userId /\ user[u].token = token}

\* User.findOne(...) and the check on what it found.
Refresh_FindUser(c) ==
    /\ pc[c] = "refresh.findUser"
    /\ LET userId == req[c].cookies.access.userId
           rows == FindOneUser(userId, req[c].cookies.refresh) IN
         IF rows = {} \/ hasDateExpired(user[userId].tokenExpiresDate, now)
         THEN Reject(c, "User.findOne", "ForbiddenError")
         ELSE /\ found' = [found EXCEPT ![c] = user[userId]]
              /\ Goto(c, "refresh.randomToken")
              /\ Issue(c, "User.findOne")
              /\ UNCHANGED <<committed, stockResult, items, writes, changed>>
    /\ UNCHANGED <<req, stock0, now>>

\* Variant: the refresh extends the life of the stored token and keeps it.
Refresh_RandomToken_KeepsToken(c) ==
    /\ pc[c] = "refresh.randomToken"
    /\ found' = [found EXCEPT ![c] =
                    [token |-> found[c].token,
                     tokenExpiresDate |-> getNowAfterSeconds(RefreshExpires, now)]]
    /\ Goto(c, "refresh.save")
    /\ UNCHANGED <<committed, req, stockResult, items, writes, changed, log, stock0, now>>

\* await randomToken(), then the new expiry date and the two assignments to user.
Refresh_RandomToken(c) ==
    /\ pc[c] = "refresh.randomToken"
    /\ found' = [found EXCEPT ![c] =
                    [token |-> NewRefreshToken(c),
                     tokenExpiresDate |-> getNowAfterSeconds(RefreshExpires, now)]]
    /\ Goto(c, "refresh.save")
    /\ UNCHANGED <<committed, req, stockResult, items, writes, changed, log, stock0, now>>

\* Variant: the transaction is opened with the READ COMMITTED level.
AUTH_ISOLATION_ReadCommitted == "READ_COMMITTED"

\* The isolation level of the transactions of refresh and logout.
AUTH_ISOLATION == "REPEATABLE_READ"

\* user.save({transaction: t}): UPDATE user SET token, tokenExpiresDate WHERE userId
Refresh_Save(c) ==
    /\ pc[c] = "refresh.save"
    /\ LET userId == req[c].cookies.access.userId
           row == <<userId, "user">> IN
         /\ ~Blocked(c, {row})
         /\ IF SerializationFailure(c, AUTH_ISOLATION, {row})
            THEN Throw(c, "User.save")
            ELSE /\ txUser' = [txUser EXCEPT ![c] = (userId :> found[c])]
                 /\ Goto(c, "commit")
                 /\ Issue(c, "User.save")
                 /\ UNCHANGED <<committed, locals, txSale, txItems, txStock, txPrice, txCatalog,
                              txAccount, changed>>
    /\ UNCHANGED <<req, stock0, now>>

Refresh(c) ==
    \/ Refresh_Begin(c)
    \/ Refresh_FindUser(c)
    \/ Refresh_RandomToken(c)
    \/ Refresh_Save(c)

\* ------------------------------------------------------------ sale item totals

\* The largest value of an INTEGER column (a signed 32-bit integer).
Int32Max == 2147483647

\* Price: @minimum 0, @maximum 200000, in euro cents.
PriceMaximum == 200000

\* Quantities of a cart line and of a stock row, and prices, at their real
\* magnitudes: small ones, the largest ones, and those around Int32Max / PriceMaximum.
QuantitySamples == {1, 2, 10737, 10738, Int32Max}
PriceSamples == {0, 1, 199999, PriceMaximum}

\* quantity * price <= Int32Max, for quantity >= 1 and price >= 0.
FitsInteger(quantity, cents) == cents = 0 \/ quantity <= Int32Max \div cents

\* createSale for a cart of one line of P1 at L1 at these magnitudes, the stock
\* row holding stockQuantity: the check of the quantity against the stock,
\* total = quantity * price, Sale.create, SaleItem.bulkCreate, which the store
\* refuses ("integer out of range") when the total exceeds the INTEGER column
\* so that the transaction rolls back, and the upsert of the stock row.
CreateSale_Line(c) ==
    /\ pc[c] = "idle"
    /\ \E quantity \in QuantitySamples, stockQuantity \in QuantitySamples,
          linePrice \in PriceSamples :
         /\ req' = [req EXCEPT ![c] = [kind |-> "createSale.line", quantity |-> quantity,
                                        stock |-> stockQuantity, price |-> linePrice]]
         /\ IF stockQuantity < quantity
            THEN /\ Answer(c, "AppError")
                 /\ UNCHANGED <<committed, writes, changed, log>>
            ELSE IF ~FitsInteger(quantity, linePrice)
            THEN Throw(c, "SaleItem.bulkCreate")
            ELSE /\ sale' = sale \cup {[saleId |-> NewSaleId(c), status |-> "completed",
                                        sellerId |-> "S1", locationId |-> "L1",
                                        totalPrice |-> quantity * linePrice]}
                 /\ saleItem' = saleItem \cup {[saleId |-> NewSaleId(c), productId |-> "P1",
                                                quantity |-> quantity, price |-> linePrice,
                                                total |-> quantity * linePrice]}
                 /\ stock' = [stock EXCEPT ![<<"P1", "L1">>] = stockQuantity - quantity]
                 /\ Answer(c, "ok")
                 /\ Issue(c, "commit")
                 /\ UNCHANGED <<price, catalog, user, account, writes, changed>>
    /\ UNCHANGED <<stock0, now>>

\* ------------------------------------------------------------------ logout

\* catch(err) { appLogger.error(err) }: the exception of the transaction, which
\* has rolled back, is logged and the handler goes on to clear the cookies.
Logout_Catch(c, call) ==
    /\ RollbackTx(c)
    /\ Answer(c, "ok")
    /\ log' = [log EXCEPT ![c] = @ \o <<call, "rollback">>]

\* logout up to the opening of the transaction: verifyToken throws on a missing
\* or badly signed access token, inside the try.
Logout_Begin(c) ==
    /\ pc[c] = "idle"
    /\ \E cookies \in CookieJars :
         /\ req' = [req EXCEPT ![c] = [kind |-> "logout", cookies |-> cookies]]
         /\ IF "access" \notin DOMAIN cookies
            THEN Answer(c, "ok")
            ELSE IF verifyToken(cookies.access, TRUE, now) # "ok"
            THEN Answer(c, "ok")
            ELSE Goto(c, "logout.findUser") /\ UNCHANGED locals
    /\ UNCHANGED <<committed, writes, changed, log, stock0, now>>

\* User.findOne({where: {userId: userId}}); the callback returns when there is
\* no such user and the transaction commits nothing.
Logout_FindUser(c) ==
    /\ pc[c] = "logout.findUser"
    /\ LET userId == req[c].cookies.access.userId IN
         IF userId \notin DOMAIN user
         THEN /\ Answer(c, "ok")
              /\ Issue(c, "User.findOne")
              /\ UNCHANGED <<committed, writes, changed>>
         ELSE /\ found' = [found EXCEPT ![c] = user[userId]]
              /\ Goto(c, "logout.save")
              /\ Issue(c, "User.findOne")
              /\ UNCHANGED <<committed, stockResult, items, writes, changed>>
    /\ UNCHANGED <<req, stock0, now>>

\* user.token = null; user.tokenExpiresDate = null; user.save({transaction: t}).
\* save() issues no UPDATE when no attribute has changed.
Logout_Save(c) ==
    /\ pc[c] = "logout.save"
    /\ LET userId == req[c].cookies.access.userId
           row == <<userId, "user">> IN
         IF found[c] = NoUser
         THEN /\ Goto(c, "commit")
              /\ UNCHANGED <<committed, locals, writes, changed, log>>
         ELSE /\ ~Blocked(c, {row})
              /\ IF SerializationFailure(c, AUTH_ISOLATION, {row})
                 THEN Logout_Catch(c, "User.save")
                 ELSE /\ txUser' = [txUser EXCEPT ![c] = (userId :> NoUser)]
                      /\ Goto(c, "commit")
                      /\ Issue(c, "User.save")
                      /\ UNCHANGED <<committed, locals, txSale, txItems, txStock, txPrice,
                                   txCatalog, txAccount, changed>>
    /\ UNCHANGED <<req, stock0, now>>

\* The store fails an awaited call of logout's transaction: caught as well.
Logout_StoreFail(c) ==
    /\ Active(c)
    /\ req[c].kind = "logout"
    /\ Logout_Catch(c, "failed")
    /\ UNCHANGED <<req, stock0, now>>

Logout(c) ==
    \/ Logout_Begin(c)
    \/ Logout_FindUser(c)
    \/ Logout_Save(c)
    \/ Logout_StoreFail(c)

\* ------------------------------------------------------------------ users

\* The lifetime of an access token, in seconds.
AccessExpires == 2

\* makePayloadAndSetCookies at the login of u at time 0: the access token that
\* u's client holds, with the role u had then.
SessionToken(u) ==
    [userId |-> u, role |-> SeedAccount[u].role, signed |-> TRUE, exp |-> AccessExpires]

\* jwtValidator(request, scopes) on the cookie: jwt.verify, then the scope.
ValidateJwt(token, scopes, clock) ==
    LET err == verifyToken(token, FALSE, clock) IN
    IF err = "TokenExpiredError" THEN "AuthenticationError"
    ELSE IF err # "ok" THEN "ForbiddenError"
    ELSE jwtValidator(token, scopes)

\* What a request body may say of a name or a role: a value, or nothing.
BodyNames == Names \cup {"null"}
BodyRoles == Roles \cup {"null"}

\* PATCH /users/{userId}/fullinfo: @Security(JWT, [Role.ADMIN]), then
\* updateUserFullInfo up to the opening of the transaction.
UpdateUserFullInfo_Begin(c) ==
    /\ pc[c] = "idle"
    /\ \E caller \in AccountIds, userId \in AccountIds \cup {"ghost"},
          name \in BodyNames, role \in BodyRoles :
         LET token == SessionToken(caller)
             verdict == ValidateJwt(token, <<"admin">>, now) IN
         /\ req' = [req EXCEPT ![c] =
                      [kind |-> "updateUserFullInfo",
                       auth |-> [userId |-> token.userId, role |-> token.role],
                       userId |-> userId, name |-> name, role |-> role]]
         /\ IF verdict # "ok"
            THEN Answer(c, verdict)
            ELSE Goto(c, "updateUser.findByPk") /\ UNCHANGED locals
    /\ UNCHANGED <<committed, writes, changed, log, stock0, now>>

\* User.findByPk(userId, {attributes, transaction}) and the check for null.
UpdateUserFullInfo_FindByPk(c) ==
    /\ pc[c] = "updateUser.findByPk"
    /\ IF req[c].userId \notin DOMAIN account
       THEN Reject(c, "User.findByPk", "NotFoundError")
       ELSE /\ found' = [found EXCEPT ![c] = account[req[c].userId]]
            /\ Goto(c, "updateUser.save")
            /\ Issue(c, "User.findByPk")
            /\ UNCHANGED <<committed, stockResult, items, writes, changed>>
    /\ UNCHANGED <<req, stock0, now>>

\* Variant: the role of the body is assigned whoever the caller is.
NewRole_AlsoOwn(auth, userId, role, current) == IF role # "null" THEN role ELSE current

\* if (request.auth.userId !== userId && role != null) user.role = role
NewRole(auth, userId, role, current) ==
    IF auth.userId # userId /\ role # "null" THEN role ELSE current

\* if (name != null) user.name = name
NewName(name, current) == IF name # "null" THEN name ELSE current

\* The isolation level of a transaction opened without one: the database's
\* default, which the deployment sets.
DefaultIsolations == {"READ_COMMITTED", "REPEATABLE_READ"}

\* The two assignments and user.save({transaction}): an UPDATE of the columns
\* whose value has changed, none when no value has.
UpdateUserFullInfo_Save(c) ==
    /\ pc[c] = "updateUser.save"
    /\ LET userId == req[c].userId
           row == <<userId, "user">>
           role == NewRole(req[c].auth, userId, req[c].role, found[c].role)
           name == NewName(req[c].name, found[c].name)
           cols == {k \in {"name", "role"} :
                       IF k = "name" THEN name # found[c].name ELSE role # found[c].role} IN
         IF cols = {}
         THEN /\ Goto(c, "commit")
              /\ UNCHANGED <<committed, locals, writes, changed, log>>
         ELSE /\ ~Blocked(c, {row})
              /\ \E isolation \in DefaultIsolations :
                   IF SerializationFailure(c, isolation, {row})
                   THEN Throw(c, "User.save")
                   ELSE /\ txAccount' = [txAccount EXCEPT ![c] =
                              (userId :> [k \in cols |-> IF k = "name" THEN name ELSE role])]
                        /\ Goto(c, "commit")
                        /\ Issue(c, "User.save")
                        /\ UNCHANGED <<committed, locals, txSale, txItems, txStock, txPrice,
                                     txCatalog, txUser, changed>>
    /\ UNCHANGED <<req, stock0, now>>

UpdateUserFullInfo(c) ==
    \/ UpdateUserFullInfo_Begin(c)
    \/ UpdateUserFullInfo_FindByPk(c)
    \/ UpdateUserFullInfo_Save(c)

\* A request of a logged-in user to an endpoint carrying @Security(JWT, [scope]),
\* up to the verdict of the guard.
Protected_Request(c) ==
    /\ pc[c] = "idle"
    /\ \E caller \in AccountIds, scope \in Roles :
         LET token == SessionToken(caller) IN
         /\ req' = [req EXCEPT ![c] =
                      [kind |-> "protected", scope |-> scope,
                       auth |-> [userId |-> token.userId, role |-> token.role]]]
         /\ Answer(c, ValidateJwt(token, <<scope>>, now))
    /\ UNCHANGED <<committed, writes, changed, log, stock0, now>>

\* Time passes.
Tick ==
    /\ now < MaxNow
    /\ now' = now + 1
    /\ UNCHANGED <<committed, pc, req, locals, writes, changed, result, log, stock0>>

\* ------------------------------------------------------------ specifications

\* Any mix of concurrent requests.
Next ==
    \E c \in Calls :
        \/ CreateSale(c)
        \/ UpdateLocationStock(c)
        \/ UpdateProductstock(c)
        \/ UpdateProduct(c)
        \/ Commit(c)
        \/ StoreFail(c)

Spec == Init /\ [][Next]_vars

\* Concurrent createSale requests only.
NextSales == \E c \in Calls : CreateSale(c) \/ Commit(c) \/ StoreFail(c)

SpecSales == Init /\ [][NextSales]_vars

\* A request runs in isolation: it starts, runs and ends while no other is active.
Alone(c) == \A d \in Calls \ {c} : ~Active(d)

Serial_CreateSale(c) == Alone(c) /\ CreateSale(c)
Serial_UpdateProduct(c) == Alone(c) /\ UpdateProduct(c)
Serial_Commit(c) == Alone(c) /\ Commit(c)
Serial_StoreFail(c) == Alone(c) /\ StoreFail(c)

\* Sales and price updates, one request after the other.
NextSerial ==
    \E c \in Calls :
        \/ Serial_CreateSale(c)
        \/ Serial_UpdateProduct(c)
        \/ Serial_Commit(c)
        \/ Serial_StoreFail(c)

SpecSerial == Init /\ [][NextSerial]_vars

\* Concurrent sales and price updates.
NextPrice ==
    \E c \in Calls : CreateSale(c) \/ UpdateProduct(c) \/ Commit(c) \/ StoreFail(c)

SpecPrice == Init /\ [][NextPrice]_vars

\* A sale (request r1) concurrent with an administrative stock update (r2).
NextStock ==
    \/ CreateSale("r1")
    \/ UpdateLocationStock("r2")
    \/ UpdateProductstock("r2")
    \/ \E c \in Calls : Commit(c) \/ StoreFail(c)

SpecStock == Init /\ [][NextStock]_vars

\* Concurrent administrative stock updates only.
NextAdmin ==
    \E c \in Calls :
        \/ UpdateLocationStock(c)
        \/ UpdateProductstock(c)
        \/ Commit(c)
        \/ StoreFail(c)

SpecAdmin == Init /\ [][NextAdmin]_vars

\* Concurrent createProduct requests only.
NextProducts == \E c \in Calls : CreateProduct(c) \/ Commit(c) \/ StoreFail(c)

SpecProducts == Init /\ [][NextProducts]_vars

\* One-line sales at the magnitudes the columns and the Price type allow.
NextTotals == \E c \in Calls : CreateSale_Line(c)

SpecTotals == Init /\ [][NextTotals]_vars

\* Concurrent createProduct and updateProduct requests.
NextCatalog ==
    \E c \in Calls :
        \/ CreateProduct(c)
        \/ UpdateProduct(c)
        \/ Commit(c)
        \/ StoreFail(c)

SpecCatalog == Init /\ [][NextCatalog]_vars

\* The guard alone, on requests to endpoints of any scope.
NextGuard == \E c \in Calls : ExpressAuthentication(c)

SpecGuard == Init /\ [][NextGuard]_vars

\* One request to POST /sales, from the router to the response.
ApiCalls == {"r1"}

NextApi ==
    \E c \in ApiCalls :
        \/ Post_Sales(c)
        \/ CreateSale_FindStock(c)
        \/ CreateSale_FindSeller(c)
        \/ CreateSale_SaleCreate(c)
        \/ CreateSale_ItemsBulkCreate(c)
        \/ CreateSale_StockBulkCreate(c)
        \/ CreateSale_StockBulkCreate_ForeignKey(c)
        \/ Commit(c)
        \/ StoreFail(c)

SpecApi == Init /\ [][NextApi]_vars

\* Concurrent refresh requests while time passes.
NextAuth == (\E c \in Calls : Refresh(c) \/ Commit(c) \/ StoreFail(c)) \/ Tick

SpecAuth == Init /\ [][NextAuth]_vars

\* Refreshes and logouts of one account, and the clock.
NextSession ==
    \/ \E c \in Calls :
          \/ Refresh(c)
          \/ Logout(c)
          \/ Commit(c)
          \/ (req[c].kind # "logout" /\ StoreFail(c))
    \/ Tick

SpecSession == Init /\ [][NextSession]_vars

\* Administration of the accounts, and requests of the account holders.
NextUsers ==
    \/ \E c \in Calls :
          \/ UpdateUserFullInfo(c)
          \/ Protected_Request(c)
          \/ Commit(c)
          \/ StoreFail(c)
    \/ Tick

SpecUsers == Init /\ [][NextUsers]_vars

\* ------------------------------------------------------------------ claims

IsSale(c) == req[c].kind = "createSale"

\* The request took a step.
Stepped(c) == pc'[c] # pc[c]

\* The store failed an awaited call of the request for a reason of its own.
Faulted(c) == \E i \in 1..Len(log[c]) : log[c][i] = "failed"

\* The cart names the product.
InCart(list, p) == \E i \in 1..Len(list) : list[i].productId = p

RECURSIVE SumQuantity(_)
SumQuantity(S) ==
    IF S = {} THEN 0
    ELSE LET x == CHOOSE y \in S : TRUE IN x.quantity + SumQuantity(S \ {x})

RECURSIVE SumTotal(_)
SumTotal(S) ==
    IF S = {} THEN 0
    ELSE LET x == CHOOSE y \in S : TRUE IN x.total + SumTotal(S \ {x})

ItemsOf(saleId) == {it \in saleItem : it.saleId = saleId}

\* C1: whatever the interleaving of concurrent createSale calls, no committed
\* stock row has a negative quantity.
C1_NoNegativeStock == \A k \in DOMAIN stock : stock[k] >= 0

\* Two sales of the same row both committed and emptied it.
C1_Witness ==
    /\ \A c \in Calls : IsSale(c) /\ result[c] = "ok" /\ req[c].locationId = "L1"
                        /\ InCart(req[c].list, "P2")
    /\ stock[<<"P2", "L1">>] = 0

\* The contention scenario: the request asks for 3 of P1 at L1 with a known
\* seller, and the store did not fail it for a reason of its own.
Contender(c) ==
    /\ IsSale(c)
    /\ req[c].list = <<[productId |-> "P1", quantity |-> 3]>>
    /\ req[c].locationId = "L1"
    /\ req[c].sellerId \in UserIds
    /\ pc[c] = "done"
    /\ ~Faulted(c)

Sold(k) ==
    SumQuantity({it \in saleItem : it.productId = k[1]
                    /\ \E s \in sale : s.saleId = it.saleId /\ s.locationId = k[2]})

\* C3: with sales only, every stock row equals its initial quantity minus the
\* quantities of the committed SaleItems of that product at that location.
C3_NoLostUpdate == \A k \in DOMAIN stock : stock[k] = stock0[k] - Sold(k)

\* Two sales of the same row both committed.
C3_Witness ==
    /\ \A c \in Calls : IsSale(c) /\ result[c] = "ok" /\ req[c].locationId = "L1"
                        /\ InCart(req[c].list, "P1")
    /\ stock[<<"P1", "L1">>] < 5

\* C4: no step of a createSale call that ends with an error changes a committed
\* Stock, Sale or SaleItem row.
C4_ErrorChangesNothing ==
    [][\A c \in Calls :
         (Stepped(c) /\ IsSale(c)' /\ result'[c] # "ok") =>
             /\ UNCHANGED <<stock, sale, saleItem>>
             /\ (pc'[c] = "done" =>
                   /\ txSale'[c] = {} /\ txItems'[c] = {} /\ txStock'[c] = EmptyFn
                   /\ \A s \in sale' : s.saleId # NewSaleId(c)
                   /\ \A it \in saleItem' : it.saleId # NewSaleId(c))]_vars

\* The store failed a createSale call after the Sale row and SaleItems were written.
C4_Witness ==
    \E c \in Calls :
        /\ IsSale(c) /\ result[c] = "Error"
        /\ \E i \in 1..Len(log[c]) : log[c][i] = "SaleItem.bulkCreate"
        /\ sale = {} /\ saleItem = {} /\ stock = SeedStock

\* C5: every committed Stock row has quantity >= 0, whatever createSale,
\* updateLocationStock and updateProductstock calls were made.
C5_StockNeverNegative == \A p \in Products, l \in Locations :
    <<p, l>> \in DOMAIN stock => stock[<<p, l>>] >= 0

\* C6: every persisted Sale's totalPrice is the sum of its items' totals, and
\* every item's total is its quantity times its price.
C6_TotalIsSumOfItems ==
    /\ \A s \in sale : s.totalPrice = SumTotal(ItemsOf(s.saleId))
    /\ \A it \in saleItem : it.total = it.quantity * it.price

\* A sale of two items is persisted.
C6_Witness == \E s \in sale : Cardinality(ItemsOf(s.saleId)) = 2 /\ s.totalPrice > 0

\* C7: a persisted Sale and its SaleItems are never changed or removed by a
\* later operation.
C7_LedgerAppendOnly ==
    [][\A s \in sale :
         /\ s \in sale'
         /\ \A t \in sale' : t.saleId = s.saleId => t = s
         /\ {it \in saleItem' : it.saleId = s.saleId} = ItemsOf(s.saleId)]_vars

\* A product's price was changed after a sale of it was persisted.
C7_Witness ==
    \E it \in saleItem, c \in Calls :
        /\ req[c].kind = "updateProduct" /\ result[c] = "ok"
        /\ req[c].productId = it.productId
        /\ price[it.productId] # it.price

\* Some product id occurs at two places of the cart.
HasRepeatedProduct(list) ==
    \E i, j \in 1..Len(list) : i < j /\ list[i].productId = list[j].productId

\* C8: a createSale cart with a repeated productId is answered BadRequestError
\* without a transaction and without any store call.
C8_RepeatedProductRejected ==
    \A c \in Calls :
        (IsSale(c) /\ HasRepeatedProduct(req[c].list)) =>
            /\ pc[c] = "done"
            /\ result[c] = "BadRequestError"
            /\ log[c] = <<>>
            /\ Locked(c) = {} /\ txSale[c] = {} /\ txItems[c] = {}

\* The cart [{P1, 1}, {P1, 2}] was rejected.
C8_Witness ==
    \E c \in Calls :
        /\ IsSale(c)
        /\ req[c].list = <<[productId |-> "P1", quantity |-> 1],
                           [productId |-> "P1", quantity |-> 2]>>
        /\ result[c] = "BadRequestError"

\* C9: a createSale that succeeds in isolation decrements the stock row of every
\* cart item at the cart's location by the requested quantity, and its Sale's
\* totalPrice is the sum of quantity times the product's current price.
C9_IsolatedSale ==
    [][\A c \in Calls :
         (Stepped(c) /\ IsSale(c) /\ result'[c] = "ok") =>
             LET list == req[c].list
                 loc == req[c].locationId IN
             /\ \A i \in 1..Len(list) :
                    stock'[<<list[i].productId, loc>>] =
                        stock[<<list[i].productId, loc>>] - list[i].quantity
             /\ \E s \in sale' \ sale :
                    /\ s.saleId = NewSaleId(c)
                    /\ s.totalPrice =
                         SumSeq([i \in 1..Len(list) |->
                                    list[i].quantity * price[list[i].productId]])]_vars

\* Stock(P1, L1) = 5, a sale of 3: the stock is 2 and the total is 3 x price(P1).
C9_Witness ==
    \E c \in Calls :
        /\ IsSale(c) /\ result[c] = "ok"
        /\ req[c].list = <<[productId |-> "P1", quantity |-> 3]>>
        /\ req[c].locationId = "L1"
        /\ stock[<<"P1", "L1">>] = 2
        /\ \E s \in sale : s.saleId = NewSaleId(c) /\ s.totalPrice = 3 * price["P1"]

\* The stock row of some cart item is missing or short at the time of the read.
Short(list, loc) ==
    \E i \in 1..Len(list) :
        \/ <<list[i].productId, loc>> \notin DOMAIN stock
        \/ stock[<<list[i].productId, loc>>] < list[i].quantity

\* C10: when the stock read finds a cart item's row missing or short, createSale
\* answers ConflitError and applies nothing, also for the items that had stock.
C10_ShortStockConflict ==
    [][\A c \in Calls :
         (pc[c] = "sale.findStock" /\ Stepped(c) /\ ~Faulted(c)'
            /\ Short(req[c].list, req[c].locationId)) =>
             /\ pc'[c] = "done"
             /\ result'[c] = "ConflitError"
             /\ UNCHANGED <<stock, sale, saleItem>>
             /\ Locked(c)' = {} /\ txSale'[c] = {} /\ txItems'[c] = {}]_vars

\* A cart whose first item had stock and whose second had not was refused.
C10_Witness ==
    \E c \in Calls :
        /\ IsSale(c) /\ result[c] = "ConflitError"
        /\ req[c].list = <<[productId |-> "P1", quantity |-> 1],
                           [productId |-> "P2", quantity |-> 3]>>
        /\ req[c].locationId = "L1"
        /\ stock = SeedStock /\ sale = {} /\ saleItem = {}

\* The request's stock validation passed and its seller lookup found no user.
UnknownSeller(c) ==
    /\ IsSale(c) /\ pc[c] = "done"
    /\ req[c].sellerId \notin UserIds
    /\ log[c] = <<"Stock.findAll", "User.findByPk">>

\* C11: a createSale whose seller id does not exist (its cart passing the stock
\* validation) is answered 404 NotFound with code resource.not_found, and no
\* Stock, Sale or SaleItem row is changed.
C11_UnknownSellerNotFound ==
    \A c \in Calls :
        UnknownSeller(c) =>
            /\ Response(c) = [status |-> 404, code |-> "resource.not_found"]
            /\ stock = stock0 /\ sale = {} /\ saleItem = {}

\* The request reached the stock read with a cart naming a product that is not
\* in the catalog.
UnknownProduct(c) ==
    /\ IsSale(c) /\ pc[c] = "done"
    /\ \E i \in 1..Len(req[c].list) : req[c].list[i].productId \notin Products
    /\ log[c] = <<"Stock.findAll">>

\* C12: a createSale cart naming a product absent from the catalog is answered
\* NotFound, not the Conflict that insufficient stock of a known product gets.
C12_UnknownProductNotFound ==
    \A c \in Calls :
        UnknownProduct(c) =>
            /\ Response(c).status = 404
            /\ result[c] # "ConflitError"

\* The store reported a serialization failure on the request's stock upsert.
SerializationFailed(c) ==
    \E i \in 1..(Len(log[c]) - 1) : log[c][i] = "Stock.bulkCreate" /\ log[c][i+1] = "rollback"

\* After a rollback the request read the stock again, in a new transaction.
Retried(c) ==
    \E i, j \in 1..Len(log[c]) : i < j /\ log[c][i] = "rollback" /\ log[c][j] = "Stock.findAll"

\* Number of stock reads the request made.
StockReads(c) == Cardinality({i \in 1..Len(log[c]) : log[c][i] = "Stock.findAll"})

\* C13: a createSale that meets a transient store failure is re-run from a new
\* transaction and a new stock read before its error is surfaced, while
\* insufficient stock and an unknown seller are answered without a re-run.
C13_TransientFailureRetried ==
    \A c \in Calls :
        (IsSale(c) /\ pc[c] = "done") =>
            /\ SerializationFailed(c) => Retried(c)
            /\ result[c] \in {"ConflitError", "AppError"} => StockReads(c) = 1

\* The step ends with the request's callback throwing a store exception.
Thrown(c) ==
    /\ Len(log'[c]) > Len(log[c])
    /\ log'[c][Len(log'[c])] = "rollback"

\* C14: a store exception during createSale's reads or writes aborts the
\* transaction, nothing of which is committed, and the caller receives the
\* 500 response without details.
C14_StoreExceptionIsServerError ==
    [][\A c \in Calls :
         (IsSale(c) /\ Thrown(c)) =>
             /\ pc'[c] = "done"
             /\ Response(c)' = [status |-> 500, code |-> "none"]
             /\ UNCHANGED <<stock, sale, saleItem>>
             /\ txSale'[c] = {} /\ txItems'[c] = {} /\ txStock'[c] = EmptyFn
             /\ \A s \in sale' : s.saleId # NewSaleId(c)]_vars

\* A sale lost the race for a stock row: its upsert threw and it got the 500.
C14_Witness ==
    \E c \in Calls :
        /\ IsSale(c) /\ pc[c] = "done" /\ SerializationFailed(c)
        /\ Response(c).status = 500
        /\ \A s \in sale : s.saleId # NewSaleId(c)

\* The store refused the request's stock upsert with a foreign key violation.
ForeignKeyRefused(c) == \E i \in 1..Len(log[c]) : log[c][i] = "ForeignKeyConstraintError"

\* C15: a foreign-key (or uniqueness) violation raised by createSale's stock
\* upsert is answered to the caller as 409 Conflict, not as a server error.
C15_UpsertViolationIsConflict ==
    \A c \in Calls :
        (IsSale(c) /\ pc[c] = "done" /\ ForeignKeyRefused(c)) =>
            /\ result[c] = "ConflitError"
            /\ Response(c).status = 409

\* The order basic < seller < manager < admin.
Rank == ("basic" :> 0) @@ ("seller" :> 1) @@ ("manager" :> 2) @@ ("admin" :> 3)

\* C16: hasRolePrivileges(actual, target) holds exactly when actual is at or
\* above target in basic < seller < manager < admin; it is reflexive,
\* transitive and antisymmetric, admin satisfies every target and basic only
\* basic; the guard lets a request through exactly on that condition.
C16_RolePrivilegeOrder ==
    /\ \A a, t \in Roles : hasRolePrivileges(a, t) <=> Rank[a] >= Rank[t]
    /\ \A a \in Roles : hasRolePrivileges(a, a)
    /\ \A a, b, d \in Roles :
          (hasRolePrivileges(a, b) /\ hasRolePrivileges(b, d)) => hasRolePrivileges(a, d)
    /\ \A a, b \in Roles : (hasRolePrivileges(a, b) /\ hasRolePrivileges(b, a)) => a = b
    /\ \A t \in Roles : hasRolePrivileges("admin", t)
    /\ \A t \in Roles : hasRolePrivileges("basic", t) <=> t = "basic"
    /\ \A c \in Calls :
          (pc[c] = "done" /\ req[c].kind = "guard") =>
              (result[c] = "ok" <=> Rank[req[c].role] >= Rank[req[c].scope])

\* A manager was let through a seller endpoint and another was refused an admin one.
C16_Witness ==
    \E c, d \in Calls :
        /\ req[c].kind = "guard" /\ req[c].role = "manager" /\ req[c].scope = "seller"
        /\ result[c] = "ok"
        /\ req[d].kind = "guard" /\ req[d].role = "manager" /\ req[d].scope = "admin"
        /\ result[d] = "ForbiddenError"

\* C17: createSale runs only for a token whose role has seller privilege
\* (seller, manager, admin); a token of role basic is answered 403 Forbidden
\* with code request.privilege and the store is not touched.
C17_SaleRequiresSeller ==
    \A c \in Calls :
        (IsSale(c) /\ pc[c] # "idle") =>
            /\ req[c].role = "basic" =>
                  /\ pc[c] = "done"
                  /\ Response(c) = [status |-> 403, code |-> "request.privilege"]
                  /\ log[c] = <<>>
                  /\ stock = stock0 /\ sale = {} /\ saleItem = {}
            /\ (log[c] # <<>> \/ (pc[c] = "done" /\ result[c] # "ForbiddenError")) =>
                  req[c].role \in {"seller", "manager", "admin"}

\* A basic user's well-formed, satisfiable cart was refused.
C17_Witness ==
    \E c \in Calls :
        /\ IsSale(c) /\ req[c].role = "basic" /\ req[c].sellerId \in UserIds
        /\ req[c].list = <<[productId |-> "P1", quantity |-> 1]>>
        /\ result[c] = "ForbiddenError"

\* Some cart item's quantity is zero or negative.
Malformed(list) == \E i \in 1..Len(list) : list[i].quantity < 1

\* C18: a createSale cart with an item whose quantity is below 1 is answered
\* 400 BadRequest (request.format) before any transaction, and no sale ever
\* raises a stock quantity.
C18_MalformedQuantityRejected ==
    /\ \A c \in Calls :
          (IsSale(c) /\ pc[c] # "idle" /\ hasRolePrivileges(req[c].role, "seller")
             /\ Malformed(req[c].list)) =>
              /\ pc[c] = "done"
              /\ Response(c) = [status |-> 400, code |-> "request.format"]
              /\ log[c] = <<>>
    /\ \A k \in DOMAIN stock : stock[k] <= stock0[k]

\* A seller's cart [{P1, -1}] was refused.
C18_Witness ==
    \E c \in Calls :
        /\ IsSale(c) /\ req[c].role = "seller"
        /\ req[c].list = <<[productId |-> "P1", quantity |-> 0 - 1]>>
        /\ result[c] = "ValidateError" /\ stock = stock0

IsStockUpdate(c) == req[c].kind \in {"updateLocationStock", "updateProductstock"}

\* The stock row the i-th entry of a stock update's list names.
ListedKey(c, i) ==
    IF req[c].kind = "updateLocationStock"
    THEN <<req[c].list[i].productId, req[c].locationId>>
    ELSE <<req[c].productId, req[c].list[i].locationId>>

ListedKeys(c) == {ListedKey(c, i) : i \in 1..Len(req[c].list)}

\* C19: the step that makes an administrative stock update succeed sets every
\* listed (product, location) row to the given quantity, whatever it was and
\* whether or not it existed, and leaves every other Stock row as it was.
C19_AbsoluteStockUpdate ==
    [][\A c \in Calls :
         (Stepped(c) /\ IsStockUpdate(c) /\ result'[c] = "ok") =>
             /\ \A i \in 1..Len(req[c].list) :
                    /\ ListedKey(c, i) \in DOMAIN stock'
                    /\ stock'[ListedKey(c, i)] = req[c].list[i].quantity
             /\ \A k \in ((DOMAIN stock) \cup (DOMAIN stock')) \ ListedKeys(c) :
                    /\ k \in DOMAIN stock /\ k \in DOMAIN stock'
                    /\ stock'[k] = stock[k]]_vars

\* An update of location L2 created the missing row (P2, L2), overwrote
\* (P1, L2) = 1 and left the rows of L1 alone.
C19_Witness ==
    \E c \in Calls :
        /\ req[c].kind = "updateLocationStock" /\ result[c] = "ok"
        /\ req[c].locationId = "L2"
        /\ req[c].list = <<[productId |-> "P1", quantity |-> MaxQty],
                           [productId |-> "P2", quantity |-> MaxQty]>>
        /\ stock[<<"P1", "L2">>] = MaxQty /\ stock[<<"P2", "L2">>] = MaxQty
        /\ stock[<<"P1", "L1">>] = 5 /\ stock[<<"P2", "L1">>] = 2

IsCreateProduct(c) == req[c].kind = "createProduct"

\* C20: no two products of one category carry the same full tag combination,
\* also after concurrent createProduct calls; a createProduct answered with the
\* duplicate Conflict (409, resource.duplicated) has created no Product or Tag row.
C20_UniqueTagCombination ==
    /\ \A r, q \in catalog :
          (r.productId # q.productId /\ r.category = q.category) => r.tags # q.tags
    /\ \A c \in Calls :
          (IsCreateProduct(c) /\ result[c] = "ConflitError") =>
              /\ Response(c) = [status |-> 409, code |-> "resource.duplicated"]
              /\ \A r \in catalog : r.productId # NewProductId(c)

IsRefresh(c) == req[c].kind = "refresh"

\* The request carries both cookies.
HasBothCookies(c) == {"access", "refresh"} \subseteq DOMAIN req[c].cookies

\* The presented refresh token is the one stored for the user the access token
\* names, and it has not expired.
RefreshTokenCurrent(c) ==
    LET userId == req[c].cookies.access.userId IN
    /\ userId \in DOMAIN user
    /\ user[userId].token = req[c].cookies.refresh
    /\ user[userId].tokenExpiresDate >= now

TokenMissing == [status |-> 401, code |-> "token.missing"]
TokenInvalid == [status |-> 403, code |-> "token.invalid"]

\* C21: refresh goes on to issue tokens only when both cookies are present,
\* the access token verifies (its expiry ignored) and the presented refresh
\* token is the one stored for that user and has not expired; otherwise it is
\* answered token.missing or token.invalid; and whenever it fails the stored
\* tokens and expiry dates are unchanged.
C21_RefreshOnlyWithValidTokens ==
    [][\A c \in Calls :
         (Stepped(c) /\ IsRefresh(c)') =>
             /\ pc[c] = "idle" =>
                   /\ ~HasBothCookies(c)' => pc'[c] = "done" /\ Response(c)' = TokenMissing
                   /\ (HasBothCookies(c)' /\ ~req'[c].cookies.access.signed) =>
                         pc'[c] = "done" /\ Response(c)' = TokenInvalid
                   /\ (HasBothCookies(c)' /\ req'[c].cookies.access.signed) => pc'[c] # "done"
             /\ pc[c] = "refresh.findUser" =>
                   /\ pc'[c] # "done" => RefreshTokenCurrent(c)
                   /\ (~RefreshTokenCurrent(c) /\ ~Faulted(c)') =>
                         pc'[c] = "done" /\ Response(c)' = TokenInvalid
             /\ (pc'[c] = "done" /\ result'[c] = "ok") =>
                   /\ HasBothCookies(c) /\ req[c].cookies.access.signed
                   /\ user[req[c].cookies.access.userId].token = req[c].cookies.refresh
                   /\ user'[req[c].cookies.access.userId].token = NewRefreshToken(c)
                   /\ \E i \in 1..Len(log[c]) : log[c][i] = "User.findOne"
             /\ (pc'[c] = "done" /\ result'[c] # "ok") => user' = user]_vars

\* A refresh rotated the token t0 of S1; the other request presented t0, still
\* unexpired, with an access token past its own expiry, and was refused.
C21_Witness ==
    \E c, d \in Calls :
        /\ IsRefresh(c) /\ result[c] = "ok"
        /\ IsRefresh(d) /\ result[d] = "ForbiddenError"
        /\ req[d].cookies = [access |-> [userId |-> "S1", signed |-> TRUE, exp |-> 0],
                             refresh |-> "t0"]
        /\ log[d] = <<"User.findOne">>
        /\ now <= SeedUser["S1"].tokenExpiresDate
        /\ user["S1"].token = NewRefreshToken(c)

StoreWrites == {"Sale.create", "SaleItem.bulkCreate", "Stock.bulkCreate"}

\* The request has issued a store write.
HasWritten(c) == \E i \in 1..Len(log[c]) : log[c][i] \in StoreWrites

\* The store calls of the request, in order, without the end of its transaction.
StoreCalls(c) ==
    SelectSeq(log[c], LAMBDA call : call \notin {"commit", "rollback", "failed"})

\* C22: a createSale issues no store write before its stock validation and its
\* seller lookup have both passed, and its writes go Sale row, then SaleItems
\* carrying the generated sale id, then the Stock bulk write.
C22_WritesAfterChecksInOrder ==
    \A c \in Calls :
        (IsSale(c) /\ HasWritten(c)) =>
            /\ \E n \in 3..5 :
                  StoreCalls(c) = SubSeq(<<"Stock.findAll", "User.findByPk", "Sale.create",
                                           "SaleItem.bulkCreate", "Stock.bulkCreate">>, 1, n)
            /\ req[c].sellerId \in UserIds
            /\ result[c] \notin {"ConflitError", "AppError", "BadRequestError"}
            /\ pc[c] # "done" =>
                  /\ \A i \in 1..Len(req[c].list) :
                        /\ req[c].list[i].productId \in DOMAIN stockResult[c]
                        /\ stockResult[c][req[c].list[i].productId].quantity >= 0
                  /\ txSale[c] # {}
                  /\ txItems[c] # {} => \A it \in txItems[c] : it.saleId = NewSaleId(c)
                  /\ txStock[c] # EmptyFn =>
                        /\ Len(StoreCalls(c)) = 5
                        /\ Cardinality(txItems[c]) = Len(req[c].list)

\* A sale of two items has issued its three writes and waits for its commit.
C22_Witness ==
    \E c \in Calls :
        /\ IsSale(c) /\ pc[c] = "commit" /\ Len(req[c].list) = 2
        /\ log[c] = <<"Stock.findAll", "User.findByPk", "Sale.create",
                      "SaleItem.bulkCreate", "Stock.bulkCreate">>
        /\ txSale[c] # {} /\ Cardinality(txItems[c]) = 2 /\ txStock[c] # EmptyFn

\* C23: every Sale persisted by createSale has the status completed, the
\* sellerId of the authenticated caller and the locationId of the cart.
C23_SaleRowFields ==
    \A s \in sale :
        \E c \in Calls :
            /\ IsSale(c) /\ result[c] = "ok"
            /\ s.saleId = NewSaleId(c)
            /\ s.status = "completed"
            /\ s.sellerId = req[c].sellerId /\ s.sellerId \in UserIds
            /\ hasRolePrivileges(req[c].role, "seller")
            /\ s.locationId = req[c].locationId

\* A manager's sale at location L2 is persisted.
C23_Witness ==
    \E s \in sale, c \in Calls :
        /\ s.saleId = NewSaleId(c) /\ req[c].role = "manager"
        /\ s.locationId = "L2" /\ req[c].locationId = "L2" /\ s.sellerId = "S1"

\* The request is a createSale that succeeded.
SaleDone(c) == IsSale(c) /\ pc[c] = "done" /\ result[c] = "ok"

\* C24: in every committed state each SaleItem refers to an existing Sale, the
\* Sales are those of the createSale calls that succeeded, one each, with
\* exactly one SaleItem per cart entry, and (saleId, productId) identifies a
\* SaleItem.
C24_SaleAndItemsTogether ==
    /\ \A it \in saleItem : \E s \in sale : s.saleId = it.saleId
    /\ \A s \in sale : \E c \in Calls : SaleDone(c) /\ s.saleId = NewSaleId(c)
    /\ \A c \in Calls :
          SaleDone(c) =>
              /\ Cardinality({s \in sale : s.saleId = NewSaleId(c)}) = 1
              /\ Cardinality(ItemsOf(NewSaleId(c))) = Len(req[c].list)
              /\ \A i \in 1..Len(req[c].list) :
                    \E it \in ItemsOf(NewSaleId(c)) :
                        /\ it.productId = req[c].list[i].productId
                        /\ it.quantity = req[c].list[i].quantity
    /\ \A it, jt \in saleItem :
          (it.saleId = jt.saleId /\ it.productId = jt.productId) => it = jt

\* Two sales are persisted, one of two items and one of one.
C24_Witness ==
    \E c, d \in Calls :
        /\ SaleDone(c) /\ SaleDone(d)
        /\ Len(req[c].list) = 2 /\ Len(req[d].list) = 1
        /\ Cardinality(sale) = 2 /\ Cardinality(saleItem) = 3

\* C25: the stock fetch of a createSale gives, for every row, the quantity and
\* the product price committed at that moment; the price of a row is kept to
\* the end of the request; the SaleItems a sale commits carry that price as
\* unit price, whatever price updates committed meanwhile, and every
\* SaleItem's total is its quantity times its stored unit price.
C25_PriceOfTheFetch ==
    [][\A c \in Calls :
         (IsSale(c) /\ Stepped(c)) =>
             /\ (pc[c] = "sale.findStock" /\ pc'[c] = "sale.findSeller") =>
                   \A p \in DOMAIN stockResult'[c] :
                       /\ stockResult'[c][p].price = price[p]
                       /\ stockResult'[c][p].quantity = stock[<<p, req[c].locationId>>]
             /\ (pc[c] \notin {"idle", "sale.findStock"} /\ pc'[c] # "done") =>
                   \A p \in DOMAIN stockResult[c] :
                       stockResult'[c][p].price = stockResult[c][p].price
             /\ (pc'[c] = "done" /\ result'[c] = "ok") =>
                   /\ Cardinality(saleItem' \ saleItem) = Len(req[c].list)
                   /\ \A it \in saleItem' \ saleItem :
                         /\ it.saleId = NewSaleId(c)
                         /\ it.price = stockResult[c][it.productId].price
             /\ \A it \in saleItem' : it.total = it.quantity * it.price]_vars

\* A price update of P1 committed after a sale fetched P1's price and before
\* the sale commits: the sale's item carries the price of the fetch.
C25_Witness ==
    \E c, d \in Calls :
        /\ IsSale(c) /\ pc[c] = "commit"
        /\ req[d].kind = "updateProduct" /\ result[d] = "ok" /\ req[d].productId = "P1"
        /\ <<"P1", "product">> \in changed[c]
        /\ \E it \in txItems[c] :
              /\ it.productId = "P1" /\ it.price = SeedPrice["P1"] /\ price["P1"] # it.price
              /\ it.total = it.quantity * it.price

\* C26: the commit of a createSale changes no Stock row of a product that is
\* not in its cart, none of another location, and creates no Stock row; no
\* other step of a createSale changes the stock table.
C26_SaleTouchesOnlyItsRows ==
    [][\A c \in Calls :
         (IsSale(c) /\ Stepped(c)) =>
             IF pc'[c] = "done" /\ result'[c] = "ok"
             THEN /\ DOMAIN stock' = DOMAIN stock
                  /\ \A k \in DOMAIN stock :
                        (k[2] # req[c].locationId \/ ~InCart(req[c].list, k[1])) =>
                            stock'[k] = stock[k]
             ELSE stock' = stock]_vars

\* A sale of P1 at L1 committed: P1 at L2 and P2 at L1 are as seeded and there
\* is still no row for P2 at L2.
C26_Witness ==
    \E c \in Calls :
        /\ SaleDone(c) /\ req[c].locationId = "L1"
        /\ req[c].list = <<[productId |-> "P1", quantity |-> 2]>>
        /\ stock[<<"P1", "L1">>] = 3
        /\ stock[<<"P1", "L2">>] = 1 /\ stock[<<"P2", "L1">>] = 2
        /\ <<"P2", "L2">> \notin DOMAIN stock

\* C27: a createSale that commits beside administrative stock updates takes
\* its quantities off the values committed at that moment, those set by an
\* update that committed after the sale's read included: it never writes back
\* a quantity derived from a value that an update has since replaced.
C27_SaleNeverWritesStaleStock ==
    [][\A c \in Calls :
         (IsSale(c) /\ Stepped(c) /\ pc'[c] = "done" /\ result'[c] = "ok") =>
             \A i \in 1..Len(req[c].list) :
                 LET k == <<req[c].list[i].productId, req[c].locationId>> IN
                 /\ k \notin changed[c]
                 /\ stock'[k] = stock[k] - req[c].list[i].quantity]_vars

\* An update set P1 at L1 to MaxQty and a sale of 1 of P1 at L1 committed too:
\* the row holds the update's quantity less the sale's.
C27_Witness ==
    \E c, d \in Calls :
        /\ SaleDone(c) /\ req[c].locationId = "L1"
        /\ req[c].list = <<[productId |-> "P1", quantity |-> 1]>>
        /\ IsStockUpdate(d) /\ result[d] = "ok" /\ ListedKeys(d) = {<<"P1", "L1">>}
        /\ req[d].list[1].quantity = MaxQty
        /\ stock[<<"P1", "L1">>] = MaxQty - 1

\* The request has issued the seller lookup.
SellerLookedUp(c) == \E i \in 1..Len(log[c]) : log[c][i] = "User.findByPk"

\* C28: createSale validates the stock before it looks the seller up: a cart
\* short of stock from a caller who is no user is answered 409 Conflict without
\* a seller lookup, and the lookup is issued only after every cart item passed
\* the stock validation.
C28_StockBeforeSeller ==
    [][\A c \in Calls :
         (IsSale(c) /\ Stepped(c) /\ ~Faulted(c)') =>
             /\ (pc[c] = "sale.findStock" /\ Short(req[c].list, req[c].locationId)
                    /\ req[c].sellerId \notin UserIds) =>
                   /\ pc'[c] = "done"
                   /\ result'[c] = "ConflitError"
                   /\ Response(c)'.status = 409
                   /\ ~SellerLookedUp(c)'
             /\ (~SellerLookedUp(c) /\ SellerLookedUp(c)') =>
                   /\ pc[c] = "sale.findSeller"
                   /\ log[c] = <<"Stock.findAll">>
                   /\ \A i \in 1..Len(req[c].list) :
                         /\ req[c].list[i].productId \in DOMAIN stockResult[c]
                         /\ stockResult[c][req[c].list[i].productId].quantity
                                >= req[c].list[i].quantity
             /\ pc'[c] = "sale.findSeller" => ~Short(req[c].list, req[c].locationId)]_vars

\* A cart of 3 of P2 at L1, where there are 2, from a caller who is no user,
\* was answered Conflict.
C28_Witness ==
    \E c \in Calls :
        /\ IsSale(c) /\ req[c].sellerId \notin UserIds /\ req[c].locationId = "L1"
        /\ req[c].list = <<[productId |-> "P2", quantity |-> 3]>>
        /\ result[c] = "ConflitError" /\ log[c] = <<"Stock.findAll">>

\* C29: every persisted Sale has at least one SaleItem, and a createSale whose
\* item list is empty creates no Sale.
C29_NoSaleWithoutItems ==
    /\ \A s \in sale : ItemsOf(s.saleId) # {}
    /\ \A c \in Calls :
          (IsSale(c) /\ pc[c] = "done" /\ req[c].list = <<>>) =>
              /\ result[c] # "ok"
              /\ \A s \in sale : s.saleId # NewSaleId(c)

\* Some listed row names a product or a location that does not exist.
ListsUnknownRow(c) == \E k \in ListedKeys(c) : k \notin Keys

\* C30: a stock update that ends with an error (BadRequest for a repeated id in
\* its list, NotFound for a missing location or product, Conflict for a listed
\* row that violates a foreign key, or a store failure) has changed no Stock
\* row, the listed rows that were valid by themselves included; the three
\* domain errors are answered 400, 404 and 409.
C30_FailedUpdateChangesNothing ==
    [][\A c \in Calls :
         (IsStockUpdate(c)' /\ Stepped(c) /\ result'[c] # "ok") =>
             /\ stock' = stock
             /\ pc'[c] = "done" =>
                   /\ txStock'[c] = EmptyFn
                   /\ result'[c] = "BadRequestError" =>
                         Response(c)'.status = 400 /\ log'[c] = <<>>
                   /\ result'[c] = "NotFoundError" => Response(c)'.status = 404
                   /\ result'[c] = "ConflitError" =>
                         Response(c)'.status = 409 /\ ListsUnknownRow(c)]_vars

\* An update of L1 listing P1, which exists, and PX, which does not, was
\* answered Conflict and the row of P1 at L1 is as seeded.
C30_Witness ==
    \E c \in Calls :
        /\ req[c].kind = "updateLocationStock" /\ req[c].locationId = "L1"
        /\ req[c].list = <<[productId |-> "P1", quantity |-> MaxQty],
                           [productId |-> "PX", quantity |-> MaxQty]>>
        /\ result[c] = "ConflitError"
        /\ stock = SeedStock

\* The refresh succeeded.
RefreshDone(c) == IsRefresh(c) /\ pc[c] = "done" /\ result[c] = "ok"

\* The refresh tokens that a refresh for user u would be accepted with now.
Accepted(u) ==
    {t \in RefreshTokens :
        FindOneUser(u, t) # {} /\ ~hasDateExpired(user[u].tokenExpiresDate, now)}

C32_OneRefreshPerToken ==
    \A c, d \in Calls :
        (c # d /\ RefreshDone(c) /\ RefreshDone(d)
            /\ req[c].cookies.access.userId = req[d].cookies.access.userId) =>
            req[c].cookies.refresh # req[d].cookies.refresh

\* Both requests read the user with t0 before either wrote: one rotated the
\* token, the other lost the row at its save and was rolled back.
C32_Witness ==
    \E c, d \in Calls :
        /\ RefreshDone(c) /\ req[c].cookies.refresh = "t0"
        /\ IsRefresh(d) /\ result[d] = "Error"
        /\ log[d] = <<"User.findOne", "User.save", "rollback">>
        /\ req[d].cookies.refresh = "t0"
        /\ user["S1"].token = NewRefreshToken(c)

IsLogout(c) == req[c].kind = "logout"

\* The logout is over and its access token verified for an existing user.
LoggedOut(c) ==
    /\ IsLogout(c) /\ pc[c] = "done"
    /\ "access" \in DOMAIN req[c].cookies
    /\ req[c].cookies.access.signed
    /\ req[c].cookies.access.userId \in DOMAIN user

\* C33: once a logout whose access token verifies for an existing user is
\* over, that user's stored refresh token and expiry date are null and no
\* refresh token of that user is accepted (no login follows here); and a
\* logout is never answered with an error, whatever its token and the store do.
C33_LogoutEndsTheSession ==
    \A c \in Calls :
        /\ (IsLogout(c) /\ pc[c] = "done") => Response(c) = [status |-> 204, code |-> "none"]
        /\ LoggedOut(c) =>
              /\ user[req[c].cookies.access.userId] = NoUser
              /\ Accepted(req[c].cookies.access.userId) = {}

IsUpdateUser(c) == req[c].kind = "updateUserFullInfo"

\* C34: updateUserFullInfo never changes the role of its caller: with the
\* caller's own id as userId the role of the body is ignored and at most the
\* name changes; a role changes only at the commit of an updateUserFullInfo of
\* another user whose token passed the admin guard, to the role of the body.
C34_NoOwnRoleChange ==
    [][\A u \in AccountIds :
         /\ \A c \in Calls :
               (IsUpdateUser(c) /\ Stepped(c) /\ req[c].auth.userId = u) =>
                   account'[u].role = account[u].role
         /\ account'[u].role # account[u].role =>
               \E c \in Calls :
                   /\ IsUpdateUser(c) /\ pc[c] = "commit" /\ pc'[c] = "done"
                   /\ req[c].userId = u /\ req[c].auth.userId # u
                   /\ hasRolePrivileges(req[c].auth.role, "admin")
                   /\ account'[u].role = req[c].role]_vars

\* The administrator asked for a new name and a lower role for itself, and
\* only the name was changed.
C34_Witness ==
    \E c \in Calls :
        /\ IsUpdateUser(c) /\ pc[c] = "done" /\ result[c] = "ok"
        /\ req[c].auth.userId = "A1" /\ req[c].userId = "A1"
        /\ req[c].role = "basic" /\ req[c].name = "Rui"
        /\ account["A1"] = [name |-> "Rui", role |-> "admin"]

IsProtected(c) == req[c].kind = "protected"

\* The stored role of u is lower than the one u logged in with.
Lowered(u) ==
    /\ account[u].role # SeedAccount[u].role
    /\ hasRolePrivileges(SeedAccount[u].role, account[u].role)

\* C35: once an administrator has lowered the role of a user, a request of
\* that user to a protected operation is let through by the guard only when
\* the lowered role has the privileges of the operation's scope.
C35_AuthorizedAgainstStoredRole ==
    [][\A c \in Calls :
         (pc[c] = "idle" /\ IsProtected(c)' /\ Lowered(req'[c].auth.userId)
             /\ result'[c] = "ok") =>
             hasRolePrivileges(account[req'[c].auth.userId].role, req'[c].scope)]_vars

IsUpdateProduct(c) == req[c].kind = "updateProduct"

\* C36: the category and the tags of a product never change once it exists: a
\* step adds rows of new products at most. updateProduct writes the product's
\* own columns (here the price) and nothing of any other table; for a product
\* that does not exist it answers 404 (resource.not_found) and writes nothing.
C36_CategoryAndTagsFixed ==
    [][/\ \A r \in catalog : r \in catalog'
       /\ \A r \in catalog' \ catalog : \A q \in catalog : q.productId # r.productId
       /\ \A c \in Calls :
             (IsUpdateProduct(c) /\ Stepped(c)) =>
                 /\ <<stock, sale, saleItem, catalog, user, account>>'
                        = <<stock, sale, saleItem, catalog, user, account>>
                 /\ <<txSale, txItems, txStock, txCatalog, txUser, txAccount>>'
                        = <<txSale, txItems, txStock, txCatalog, txUser, txAccount>>
                 /\ \A p \in DOMAIN price : price'[p] # price[p] => p = req[c].productId
                 /\ (pc[c] = "product.get" /\ req[c].productId \notin Products /\ ~Faulted(c)') =>
                       /\ pc'[c] = "done"
                       /\ Response(c)' = [status |-> 404, code |-> "resource.not_found"]
                       /\ committed' = committed /\ writes' = writes]_vars

\* One request changed the price of P1 and another asked for an unknown product
\* and was refused, while the catalog stayed as seeded.
C36_Witness ==
    \E c, d \in Calls :
        /\ IsUpdateProduct(c) /\ result[c] = "ok" /\ req[c].productId = "P1"
        /\ price["P1"] = req[c].price /\ price["P1"] # SeedPrice["P1"]
        /\ IsUpdateProduct(d) /\ req[d].productId = "PX" /\ result[d] = "NotFoundError"
        /\ log[d] = <<"Product.findByPk">>
        /\ catalog = SeedCatalog

IsSaleLine(c) == req[c].kind = "createSale.line"

\* C37: for every cart quantity that the stock covers (the stock quantity being
\* a 32-bit integer) and every price from 0 to 200000, the sale is stored and
\* its item's total = quantity * price is at most 2^31 - 1, the largest value of
\* the column it is stored in; the sale's totalPrice is not negative.
C37_TotalFitsItsColumn ==
    \A c \in Calls :
        (IsSaleLine(c) /\ pc[c] = "done" /\ req[c].quantity <= req[c].stock) =>
            /\ result[c] = "ok"
            /\ \E it \in saleItem :
                  /\ it.saleId = NewSaleId(c)
                  /\ it.total = req[c].quantity * req[c].price
                  /\ it.total <= Int32Max
            /\ \A sl \in sale : sl.totalPrice >= 0

====
